---- MODULE Spec2Model ----
(***************************************************************************)
(* Token lifecycle engine of mcp-oauth-bridge: TokenManager (saveToken,    *)
(* loadToken, isExpired, refreshToken, getValidToken, deleteToken) and the *)
(* MCPClient's authorized call.  Every `await` of the source is a step of  *)
(* the invocation that runs it; the code between two awaits is atomic.     *)
(***************************************************************************)
EXTENDS Integers, Sequences, FiniteSets, TLC

\* ---------------------------------------------------------------- bounds
MaxTicks == 2          \* how many times the clock advances in one behaviour
Now0 == 1000000        \* Date.now() at the start of a behaviour (ms)
MaxRequests == 2       \* how many HTTP requests reach one callback listener

\* ------------------------------------------------------------- constants
TOKEN_EXPIRY_BUFFER_MS == 5 * 60 * 1000
DEFAULT_CALLBACK_PORT == 8080
DEFAULT_TIMEOUT_MS == 5 * 60 * 1000

Procs == {"p1", "p2"}          \* flows of control (async invocations)
SeqProcs == {"p1"}             \* the flow of control of sequential use
Names == {"svc", "other"}      \* identities (server names)
SeqNames == {"svc"}            \* the identity of sequential use
TickSteps == {1, TOKEN_EXPIRY_BUFFER_MS}

\* ------------------------------------------------- JavaScript values
\* An object is a function from the names of the properties it has; an
\* optional property that is undefined is not in the DOMAIN (JSON drops it).
Null == [null |-> TRUE]
None == [none |-> TRUE]

Has(o, f) == f \in DOMAIN o

\* JavaScript truthiness of an optional property: undefined is falsy, and so
\* are the number 0 and the empty string.
TruthyNum(o, f) == Has(o, f) /\ o[f] # 0

TruthyStr(o, f) == Has(o, f) /\ o[f] # ""

\* { ...o, f: v }  and  o.f = v
Put(o, f, v) == [g \in DOMAIN o \cup {f} |-> IF g = f THEN v ELSE o[g]]

\* An OAuthToken built from optional parts; each option is {} or {value}.
MkToken(a, r, i, e) ==
    [f \in {"access_token", "token_type"}
           \cup (IF r = {} THEN {} ELSE {"refresh_token"})
           \cup (IF i = {} THEN {} ELSE {"expires_in"})
           \cup (IF e = {} THEN {} ELSE {"expires_at"})
       |-> CASE f = "access_token"  -> a
             [] f = "token_type"    -> "Bearer"
             [] f = "refresh_token" -> CHOOSE x \in r : TRUE
             [] f = "expires_in"    -> CHOOSE x \in i : TRUE
             [] f = "expires_at"    -> CHOOSE x \in e : TRUE]

\* The oauth section of an MCPServer, built the same way.
MkServer(t, c, s) ==
    [f \in (IF t = {} THEN {} ELSE {"tokenUrl"})
           \cup (IF c = {} THEN {} ELSE {"clientId"})
           \cup (IF s = {} THEN {} ELSE {"clientSecret"})
       |-> CASE f = "tokenUrl"     -> CHOOSE x \in t : TRUE
             [] f = "clientId"     -> CHOOSE x \in c : TRUE
             [] f = "clientSecret" -> CHOOSE x \in s : TRUE]

\* ------------------------------------------------------ input domains
RefreshOpts == {{}, {""}, {"r1"}}
RotatedOpts == {{}, {""}, {"r2"}}
ExpiryOffsets == {-1000, TOKEN_EXPIRY_BUFFER_MS}

\* Tokens a caller passes to saveToken when Date.now() = t: with or without
\* a lifetime, and with an expiry instant that is absent, 0, past or ahead.
TokenInputs(t) ==
    {MkToken("old", r, {}, e) :
        r \in RefreshOpts,
        e \in {{}, {0}} \cup {{t + d} : d \in ExpiryOffsets}}
    \cup {MkToken("old", r, {300}, e) :
        r \in RefreshOpts, e \in {{}, {t + TOKEN_EXPIRY_BUFFER_MS}}}

\* Tokens a caller asks isExpired about when Date.now() = t.
ExpiryInputs(t) ==
    {MkToken("old", {}, i, e) :
        i \in {{}, {300}},
        e \in {{}, {0}} \cup {{t + d} : d \in
                 {-1000, 0, TOKEN_EXPIRY_BUFFER_MS - 1, TOKEN_EXPIRY_BUFFER_MS,
                  2 * TOKEN_EXPIRY_BUFFER_MS}}}

\* Payloads the token endpoint answers a refresh with when Date.now() = t:
\* with a lifetime that is absent, 0 or 300 s, or with its own expiry instant.
RefreshResponses(t) ==
    {MkToken("new", r, i, {}) : r \in RotatedOpts, i \in {{}, {0}, {300}}}
    \cup {MkToken("new", r, {300}, {t + TOKEN_EXPIRY_BUFFER_MS}) :
             r \in RotatedOpts}

\* Tokens of the save/load specification: every combination of a lifetime
\* that is absent, 0 or 300 s with an expiry instant that is absent, 0, past
\* or ahead.
StoreTokens(t) ==
    {MkToken("old", {"r1"}, i, e) :
        i \in {{}, {0}, {300}},
        e \in {{}, {0}} \cup {{t + d} : d \in ExpiryOffsets}}

\* Tokens of concurrent use: an expired record with a refresh credential,
\* and a record of other fields (a lifetime, no refresh credential).
ConcTokens(t) ==
    {MkToken("old", {"r1"}, {}, {t - 1000}), MkToken("alt", {}, {300}, {})}

ConcServers == {MkServer({"T"}, {"cid"}, {})}

\* Descriptors given to runOAuthFlow: complete (with a client secret), and
\* lacking the authorization endpoint, the token endpoint or the client id.
FlowServers ==
    {Put(MkServer({"T"}, {"cid"}, {"sec"}), "authorizationUrl", "A"),
     MkServer({"T"}, {"cid"}, {}),
     Put(MkServer({}, {"cid"}, {}), "authorizationUrl", "A"),
     Put(MkServer({"T"}, {}, {}), "authorizationUrl", "A")}

\* Concurrent authorization attempts: two callback ports, two verifiers,
\* the callback of the provider (a code, the state of the attempt) and one
\* answer to the exchange.
Ports == {DEFAULT_CALLBACK_PORT, DEFAULT_CALLBACK_PORT + 1}
AttemptVerifiers == {"v1", "v2"}
AttemptStates == {"s1"}
AttemptQueries == {[code |-> "c1", state |-> st] : st \in AttemptStates}
AttemptResponses == {MkToken("new", {"r2"}, {300}, {})}

ListenerServers ==
    {Put(MkServer({"T"}, {"cid"}, {"sec"}), "authorizationUrl", "A")}

\* generateState() and generatePKCE() draw random values
States == {"s1", "s2"}
Verifiers == {"v1"}

\* Query strings of a request or of a pasted URL: code, state and error are
\* each absent, empty or set.
Queries ==
    {[f \in (IF c = {} THEN {} ELSE {"code"})
            \cup (IF st = {} THEN {} ELSE {"state"})
            \cup (IF e = {} THEN {} ELSE {"error"})
        |-> CASE f = "code"  -> CHOOSE x \in c : TRUE
              [] f = "state" -> CHOOSE x \in st : TRUE
              [] f = "error" -> CHOOSE x \in e : TRUE] :
        c \in {{}, {""}, {"c1"}},
        st \in {{}, {""}, {"s1"}, {"s2"}},
        e \in {{}, {""}, {"access_denied"}}}

Paths == {"/callback", "/favicon.ico"}

\* What the user pastes at the manual prompt: text that parses as a URL with
\* a query string, or text that does not.
PastedUrls ==
    {[valid |-> TRUE, query |-> q] : q \in Queries}
        \cup {[valid |-> FALSE, query |-> <<>>]}

\* 2xx answers of the token endpoint to the code exchange
ExchangeResponses(t) ==
    {MkToken("new", {"r2"}, {300}, {}), MkToken("new", {}, {}, {})}

\* The domains of the registry's specification: urls, the oauthOptions of
\* addServer ({} properties when the argument is omitted), saved records.
Urls == {"u1", "u2"}
OAuthOptions == {MkServer({"T"}, {"cid"}, {}), MkServer({}, {}, {})}
RegistryTokens(t) == {MkToken("a1", {}, {}, {}), MkToken("a2", {"r1"}, {}, {})}

\* a password and a token, each a string as the sequence of its characters
Pw == <<"p", "w">>
Tk == <<"t", "k">>

\* The domains of the bridge's specification. An Authorization header is
\* {} when the request has none, {h} otherwise; h is a string as the
\* sequence of its characters.
Bearer == <<"B", "e", "a", "r", "e", "r", " ">>
Headers ==
    {{}, {Bearer \o Pw}, {Bearer \o Tk}, {Bearer \o <<"p", "x">>}, {Bearer},
     {Pw}, {<<"b", "e", "a", "r", "e", "r", " ">> \o Pw},
     {Bearer \o Pw \o <<" ">>}, {<<"B", "a", "s", "i", "c", " ">> \o Pw}}

\* BridgeConfig.auth: password and token are optional
AuthConfigs ==
    {[type |-> "password", password |-> Pw],
     [type |-> "password", password |-> Pw, token |-> Tk],
     [type |-> "bearer", token |-> Tk],
     [type |-> "password", password |-> <<>>, token |-> Tk],
     [type |-> "password"]}

\* requests to the bridge: method, route, :server, Authorization, body.tool
BridgeRequests ==
    {[method |-> m, route |-> r, server |-> n, authorization |-> h,
      tool |-> t] :
        m \in {"GET", "POST"},
        r \in {"/health", "/servers", "/mcp/:server/tools",
               "/mcp/:server/call", "/other"},
        n \in Names, h \in Headers, t \in {{}, {"t1"}}}

BridgeTokens(t) ==
    {MkToken("old", {}, {}, {}), MkToken("old", {"r1"}, {}, {t - 1000})}

\* The domains of the refresh sequences: an expired record with the refresh
\* credential r1, descriptors with a client secret, with an empty one and
\* without, answers that rotate to r2 and answers that do not rotate.
SequenceTokens(t) == {MkToken("old", {"r1"}, {}, {t - 1000})}
SequenceServers == {MkServer({"T"}, {"cid"}, s) : s \in {{}, {""}, {"sec"}}}
SequenceResponses ==
    {MkToken("new", {"r2"}, {}, {}), MkToken("new", {}, {}, {})}

Servers == {MkServer(t, c, {}) : t \in {{}, {"T"}}, c \in {{}, {"cid"}}}

\* The smaller domains of the authorized caller's specification.
CallerTokens(t) ==
    {MkToken("old", r, {}, e) :
        r \in {{}, {"r1"}},
        e \in {{}, {t - 1000}, {t + TOKEN_EXPIRY_BUFFER_MS}}}

CallerResponses(t) ==
    {MkToken("new", {}, {300}, {}), MkToken("new", {"r2"}, {}, {})}

CallerServers == {MkServer({"T"}, {"cid"}, {"sec"}), MkServer({}, {}, {})}

\* Non-2xx answers of the token endpoint: status, and response data ({} when
\* the response has no data).
ErrorStatuses == {401, 500}
ErrorData == {{}, {"invalid_grant"}}

\* Outcomes of the upstream POST: an HTTP answer, or no response at all.
UpstreamOutcomes ==
    {[response |-> TRUE, status |-> 200, data |-> [result |-> [tools |-> "t1"]]],
     [response |-> TRUE, status |-> 200, data |-> [error |-> "rpc"]],
     [response |-> TRUE, status |-> 200, data |-> [jsonrpc |-> "2.0"]],
     [response |-> TRUE, status |-> 401, data |-> "denied"],
     [response |-> TRUE, status |-> 403, data |-> "forbidden"],
     [response |-> TRUE, status |-> 503, data |-> "busy"],
     [response |-> TRUE, status |-> 404, data |-> "missing"],
     [response |-> TRUE, status |-> 500, data |-> "down"],
     [response |-> FALSE]}

\* the upstream outcomes of the bridge's specification
BridgeOutcomes ==
    {out \in UpstreamOutcomes : ~out.response \/ out.status \in {200, 401}}

\* ------------------------------------------------------------- state
VARIABLES
    store,      \* token file of each identity: its JSON content, or Null
    mode,       \* permission bits of each token file ("none" when no file)
    now,        \* Date.now()
    ticks,      \* number of clock advances so far
    proc,       \* each flow of control: position and local variables
    config      \* config.json: the bridge credential and the registry

vars == <<store, mode, now, ticks, proc, config>>

IdleProc ==
    [pc |-> "idle", op |-> "none", name |-> "", server |-> None,
     token |-> None, currentToken |-> None, req |-> None, nreq |-> 0,
     resp |-> None, newToken |-> None, saving |-> None, saveTime |-> 0,
     wrote |-> FALSE, up |-> None, nup |-> 0, result |-> None, error |-> None,
     before |-> None, checked |-> None, rejected |-> None, arg |-> None,
     flow |-> None, cfg |-> None, http |-> None]

\* Besides the locals of the source, a flow of control records what its
\* invocation saw: before (the stored record when it was called), checked
\* (Date.now() and the answer of its isExpired call), rejected (the non-2xx
\* answer of the token endpoint), saveTime (Date.now() in saveToken), nreq and
\* nup (requests sent to the token endpoint and upstream), wrote (it changed
\* the store), arg (the token its caller passed to saveToken). flow holds the
\* locals of runOAuthFlow and the callback listener it owns, cfg the
\* BridgeConfig object a ConfigManager operation works on, http the request
\* a bridge route handles and the status it answers.

\* ConfigManager.init: the default config, with a generated password and no
\* registered server (servers is an object without properties)
DefaultConfig ==
    [auth |-> [type |-> "password", password |-> Pw],
     servers |-> [n \in {} |-> None]]

Init ==
    /\ store = [n \in Names |-> Null]
    /\ mode = [n \in Names |-> "none"]
    /\ now = Now0
    /\ ticks = 0
    /\ proc = [p \in Procs |-> IdleProc]
    /\ config = DefaultConfig

\* ------------------------------------------------------ TokenManager
\* (variant) a record without expires_at counts as expired
isExpired_unsetIsExpired(token, t) ==
    IF ~TruthyNum(token, "expires_at") THEN TRUE
    ELSE token.expires_at - t < TOKEN_EXPIRY_BUFFER_MS

\* isExpired(token) evaluated when Date.now() = t
isExpired(token, t) ==
    IF ~TruthyNum(token, "expires_at") THEN FALSE
    ELSE token.expires_at - t < TOKEN_EXPIRY_BUFFER_MS

\* saveToken: "Stamp expiry timestamp if server provided expires_in"
Stamp(token, t) ==
    IF TruthyNum(token, "expires_in") /\ ~TruthyNum(token, "expires_at")
    THEN Put(token, "expires_at", t + token.expires_in * 1000)
    ELSE token

\* variant of RefreshParams: the client secret is never sent
RefreshParams_noSecret(currentToken, server) ==
    [url |-> server.tokenUrl,
     grant_type |-> "refresh_token",
     refresh_token |-> currentToken.refresh_token,
     client_id |-> server.clientId]

\* refreshToken: the form body of the POST to the token endpoint
RefreshParams(currentToken, server) ==
    LET base == [url |-> server.tokenUrl,
                 grant_type |-> "refresh_token",
                 refresh_token |-> currentToken.refresh_token,
                 client_id |-> server.clientId]
    IN IF TruthyStr(server, "clientSecret")
       THEN Put(base, "client_secret", server.clientSecret)
       ELSE base

\* (variant) the stored refresh_token always wins over the response's
Rotate_keepStored(data, currentToken) ==
    Put(data, "refresh_token", currentToken.refresh_token)

\* (variant) the response is saved as it came, the old refresh_token is lost
Rotate_noPreserve(data, currentToken) == data

\* refreshToken: "If the server didn't return a new refresh_token, preserve
\* the old one"
Rotate(data, currentToken) ==
    IF ~TruthyStr(data, "refresh_token")
    THEN Put(data, "refresh_token", currentToken.refresh_token)
    ELSE data

\* an invocation throws: the error propagates to the top-level caller
Thrown(pr, err) == [pr EXCEPT !.pc = "done", !.error = err]

\* variant of SendUpstream: the token loaded from the store is attached,
\* also after a refresh
SendUpstream_loadedToken(pr, tok) ==
    [pr EXCEPT !.pc = "rpc_post",
               !.up = [url |-> "U", scheme |-> "Bearer",
                       credentials |-> pr.token.access_token],
               !.nup = @ + 1]

\* jsonRpcCall after getValidToken resolved: attach the token, POST upstream
SendUpstream(pr, tok) ==
    [pr EXCEPT !.pc = "rpc_post",
               !.up = [url |-> "U", scheme |-> "Bearer",
                       credentials |-> tok.access_token],
               !.nup = @ + 1]

\* getValidToken / refreshToken resolve with tok
Returned(pr, tok) ==
    IF pr.op = "jsonRpcCall" THEN SendUpstream([pr EXCEPT !.result = tok], tok)
    ELSE [pr EXCEPT !.pc = "done", !.result = tok]

\* saveToken(serverName, token) up to `await fs.ensureDir`
CallSaveToken(p, n, t) ==
    /\ proc[p].pc = "idle"
    /\ proc' = [proc EXCEPT ![p] = [IdleProc EXCEPT !.pc = "sv_ensure",
                                       !.op = "saveToken", !.name = n,
                                       !.before = store[n],
                                       !.saving = t, !.arg = t]]
    /\ UNCHANGED <<store, mode, now, ticks, config>>

\* saveToken after ensureDir: stamp expires_at, serialise, start writeJSON
SaveStamp(p) ==
    /\ proc[p].pc = "sv_ensure"
    /\ proc' = [proc EXCEPT ![p].pc = "sv_write",
                            ![p].saving = Stamp(proc[p].saving, now),
                            ![p].saveTime = now]
    /\ UNCHANGED <<store, mode, now, ticks, config>>

\* the modes writeJSON gives a file it creates: 0666 masked by the umask of
\* the process (022, or 077)
CreateModes == {"0644", "0600"}

\* variant of SaveWrite: the fields of the record already stored survive
\* where the saved record has none
SaveWrite_merge(p) ==
    /\ proc[p].pc = "sv_write"
    /\ LET old == store[proc[p].name]
           new == proc[p].saving
       IN store' = [store EXCEPT ![proc[p].name] =
                       IF old = Null THEN new
                       ELSE [f \in DOMAIN old \cup DOMAIN new |->
                                IF f \in DOMAIN new THEN new[f] ELSE old[f]]]
    /\ \E m \in CreateModes :
          mode' = [mode EXCEPT ![proc[p].name] =
                      IF store[proc[p].name] = Null THEN m ELSE @]
    /\ proc' = [proc EXCEPT ![p].pc = "sv_chmod", ![p].wrote = TRUE]
    /\ UNCHANGED <<now, ticks, config>>

\* the file is written (a new file is created with mode 0666 masked by the
\* umask of the process; an existing file keeps its mode); then
\* `await fs.chmod`
SaveWrite(p) ==
    /\ proc[p].pc = "sv_write"
    /\ store' = [store EXCEPT ![proc[p].name] = proc[p].saving]
    /\ \E m \in CreateModes :
          mode' = [mode EXCEPT ![proc[p].name] =
                      IF store[proc[p].name] = Null THEN m ELSE @]
    /\ proc' = [proc EXCEPT ![p].pc = "sv_chmod", ![p].wrote = TRUE]
    /\ UNCHANGED <<now, ticks, config>>

\* chmod 0o600 takes effect and saveToken resolves; inside refreshToken the
\* caller goes on to `return newToken`. When the file has been removed since
\* it was written, chmod rejects (ENOENT) and the rejection propagates.
SaveChmod(p) ==
    /\ proc[p].pc = "sv_chmod"
    /\ mode' = [mode EXCEPT ![proc[p].name] =
                    IF store[proc[p].name] = Null THEN @ ELSE "0600"]
    /\ proc' = [proc EXCEPT ![p] =
                    IF store[proc[p].name] = Null
                    THEN Thrown(@, [type |-> "ENOENT"])
                    ELSE IF proc[p].op \in {"saveToken", "loadThenSave"}
                    THEN [@ EXCEPT !.pc = "done"]
                    ELSE IF proc[p].op = "saveThenLoad"
                    THEN [@ EXCEPT !.pc = "lt_load"]
                    ELSE Returned(@, proc[p].newToken)]
    /\ UNCHANGED <<store, now, ticks, config>>

\* loadToken(serverName) up to its first `await`
CallLoadToken(p, n) ==
    /\ proc[p].pc = "idle"
    /\ proc' = [proc EXCEPT ![p] = [IdleProc EXCEPT !.pc = "lt_load",
                                       !.op = "loadToken", !.name = n,
                                       !.before = store[n]]]
    /\ UNCHANGED <<store, mode, now, ticks, config>>

\* a caller saves a token and loads it back:
\* await saveToken(name, t); return await loadToken(name)
CallSaveThenLoad(p, n, t) ==
    /\ proc[p].pc = "idle"
    /\ proc' = [proc EXCEPT ![p] = [IdleProc EXCEPT !.pc = "sv_ensure",
                                       !.op = "saveThenLoad", !.name = n,
                                       !.before = store[n],
                                       !.saving = t, !.arg = t]]
    /\ UNCHANGED <<store, mode, now, ticks, config>>

\* a caller loads the stored token and saves it again:
\* t = await loadToken(name); if (t) await saveToken(name, t)
CallLoadThenSave(p, n) ==
    /\ proc[p].pc = "idle"
    /\ proc' = [proc EXCEPT ![p] = [IdleProc EXCEPT !.pc = "lt_load",
                                       !.op = "loadThenSave", !.name = n,
                                       !.before = store[n]]]
    /\ UNCHANGED <<store, mode, now, ticks, config>>

\* variant of LtLoad: the expiry instant is recomputed from expires_in on load
LtLoad_restamp(p) ==
    /\ proc[p].pc = "lt_load"
    /\ LET stored == store[proc[p].name]
           loaded == IF TruthyNum(stored, "expires_in")
                     THEN Put(stored, "expires_at",
                              now + stored.expires_in * 1000)
                     ELSE stored
       IN proc' = [proc EXCEPT ![p] =
                      IF proc[p].op = "loadThenSave" /\ loaded # Null
                      THEN [@ EXCEPT !.pc = "sv_ensure", !.result = loaded,
                                     !.saving = loaded, !.arg = loaded]
                      ELSE [@ EXCEPT !.pc = "done", !.result = loaded]]
    /\ UNCHANGED <<store, mode, now, ticks, config>>

\* loadToken: pathExists, then readJSON of the file or null
LtLoad(p) ==
    /\ proc[p].pc = "lt_load"
    /\ LET loaded == store[proc[p].name]
       IN proc' = [proc EXCEPT ![p] =
                      IF proc[p].op = "loadThenSave" /\ loaded # Null
                      THEN [@ EXCEPT !.pc = "sv_ensure", !.result = loaded,
                                     !.saving = loaded, !.arg = loaded]
                      ELSE [@ EXCEPT !.pc = "done", !.result = loaded]]
    /\ UNCHANGED <<store, mode, now, ticks, config>>

\* hasToken(serverName) up to `fs.pathExists`
CallHasToken(p, n) ==
    /\ proc[p].pc = "idle"
    /\ proc' = [proc EXCEPT ![p] = [IdleProc EXCEPT !.pc = "ht_exists",
                                       !.op = "hasToken", !.name = n,
                                       !.before = store[n]]]
    /\ UNCHANGED <<store, mode, now, ticks, config>>

\* hasToken: pathExists answers
HtExists(p) ==
    /\ proc[p].pc = "ht_exists"
    /\ proc' = [proc EXCEPT ![p].pc = "done",
                            ![p].result = [exists |-> store[proc[p].name] # Null]]
    /\ UNCHANGED <<store, mode, now, ticks, config>>

\* getValidToken(serverName, server) up to `await this.loadToken`
CallGetValidToken(p, n, s) ==
    /\ proc[p].pc = "idle"
    /\ proc' = [proc EXCEPT ![p] = [IdleProc EXCEPT !.pc = "gv_load",
                                       !.op = "getValidToken", !.name = n,
                                       !.before = store[n],
                                       !.server = s]]
    /\ UNCHANGED <<store, mode, now, ticks, config>>

\* (variant) getValidToken refreshes without asking isExpired
GvLoad_alwaysRefresh(p) ==
    /\ proc[p].pc = "gv_load"
    /\ LET token == store[proc[p].name]
           pr == [proc[p] EXCEPT !.token = token,
                                 !.checked = IF token = Null THEN None
                                             ELSE [at |-> now, expired |->
                                                      isExpired(token, now)]]
       IN proc' = [proc EXCEPT ![p] =
                      IF token = Null
                      THEN Thrown(pr, [type |-> "NoTokenError"])
                      ELSE [pr EXCEPT !.pc = "rt_load"]]
    /\ UNCHANGED <<store, mode, now, ticks, config>>

\* (variant) getValidToken without the null check: a missing record goes on
\* to refreshToken
GvLoad_noNullCheck(p) ==
    /\ proc[p].pc = "gv_load"
    /\ LET token == store[proc[p].name]
           pr == [proc[p] EXCEPT !.token = token,
                                 !.checked = IF token = Null THEN None
                                             ELSE [at |-> now, expired |->
                                                      isExpired(token, now)]]
       IN proc' = [proc EXCEPT ![p] =
                      IF token = Null \/ isExpired(token, now)
                      THEN [pr EXCEPT !.pc = "rt_load"]
                      ELSE Returned(pr, token)]
    /\ UNCHANGED <<store, mode, now, ticks, config>>

\* variant of GvLoad: while another invocation is refreshing the identity,
\* the stored record is returned and no second refresh is started
GvLoad_singleFlight(p) ==
    /\ proc[p].pc = "gv_load"
    /\ LET token == store[proc[p].name]
           busy == \E q \in Procs \ {p} :
                      /\ proc[q].name = proc[p].name
                      /\ proc[q].pc \in {"rt_load", "rt_post"}
           pr == [proc[p] EXCEPT !.token = token,
                                 !.checked = IF token = Null THEN None
                                             ELSE [at |-> now, expired |->
                                                      isExpired(token, now)]]
       IN proc' = [proc EXCEPT ![p] =
                      IF token = Null
                      THEN Thrown(pr, [type |-> "NoTokenError"])
                      ELSE IF isExpired(token, now) /\ ~busy
                      THEN [pr EXCEPT !.pc = "rt_load"]
                      ELSE Returned(pr, token)]
    /\ UNCHANGED <<store, mode, now, ticks, config>>

\* getValidToken after loadToken: null check, isExpired, refresh or return
GvLoad(p) ==
    /\ proc[p].pc = "gv_load"
    /\ LET token == store[proc[p].name]
           pr == [proc[p] EXCEPT !.token = token,
                                 !.checked = IF token = Null THEN None
                                             ELSE [at |-> now, expired |->
                                                      isExpired(token, now)]]
       IN proc' = [proc EXCEPT ![p] =
                      IF token = Null
                      THEN Thrown(pr, [type |-> "NoTokenError"])
                      ELSE IF isExpired(token, now)
                      THEN [pr EXCEPT !.pc = "rt_load"]
                      ELSE Returned(pr, token)]
    /\ UNCHANGED <<store, mode, now, ticks, config>>

\* isExpired(token): synchronous, no await
CallIsExpired(p, t) ==
    /\ proc[p].pc = "idle"
    /\ proc' = [proc EXCEPT ![p] = [IdleProc EXCEPT !.pc = "done",
                                       !.op = "isExpired", !.token = t,
                                       !.checked = [at |-> now, expired |->
                                                       isExpired(t, now)]]]
    /\ UNCHANGED <<store, mode, now, ticks, config>>

\* refreshToken(serverName, server) up to `await this.loadToken`
CallRefreshToken(p, n, s) ==
    /\ proc[p].pc = "idle"
    /\ proc' = [proc EXCEPT ![p] = [IdleProc EXCEPT !.pc = "rt_load",
                                       !.op = "refreshToken", !.name = n,
                                       !.before = store[n],
                                       !.server = s]]
    /\ UNCHANGED <<store, mode, now, ticks, config>>

\* (variant) the descriptor is checked before the refresh_token
RtLoad_configFirst(p) ==
    /\ proc[p].pc = "rt_load"
    /\ LET currentToken == store[proc[p].name]
           server == proc[p].server
           pr == [proc[p] EXCEPT !.currentToken = currentToken]
       IN proc' = [proc EXCEPT ![p] =
                      IF ~TruthyStr(server, "tokenUrl")
                      THEN Thrown(pr, [type |-> "MissingEndpointError"])
                      ELSE IF ~TruthyStr(server, "clientId")
                      THEN Thrown(pr, [type |-> "MissingClientIdError"])
                      ELSE IF ~TruthyStr(currentToken, "refresh_token")
                      THEN Thrown(pr, [type |-> "NoRefreshTokenError"])
                      ELSE [pr EXCEPT !.pc = "rt_post",
                                      !.req = RefreshParams(currentToken, server),
                                      !.nreq = @ + 1]]
    /\ UNCHANGED <<store, mode, now, ticks, config>>

\* (variant) clientId is checked before tokenUrl
RtLoad_clientIdFirst(p) ==
    /\ proc[p].pc = "rt_load"
    /\ LET currentToken == store[proc[p].name]
           server == proc[p].server
           pr == [proc[p] EXCEPT !.currentToken = currentToken]
       IN proc' = [proc EXCEPT ![p] =
                      IF ~TruthyStr(currentToken, "refresh_token")
                      THEN Thrown(pr, [type |-> "NoRefreshTokenError"])
                      ELSE IF ~TruthyStr(server, "clientId")
                      THEN Thrown(pr, [type |-> "MissingClientIdError"])
                      ELSE IF ~TruthyStr(server, "tokenUrl")
                      THEN Thrown(pr, [type |-> "MissingEndpointError"])
                      ELSE [pr EXCEPT !.pc = "rt_post",
                                      !.req = RefreshParams(currentToken, server),
                                      !.nreq = @ + 1]]
    /\ UNCHANGED <<store, mode, now, ticks, config>>

\* refreshToken after loadToken: the three checks, then axios.post
RtLoad(p) ==
    /\ proc[p].pc = "rt_load"
    /\ LET currentToken == store[proc[p].name]
           server == proc[p].server
           pr == [proc[p] EXCEPT !.currentToken = currentToken]
       IN proc' = [proc EXCEPT ![p] =
                      IF ~TruthyStr(currentToken, "refresh_token")
                      THEN Thrown(pr, [type |-> "NoRefreshTokenError"])
                      ELSE IF ~TruthyStr(server, "tokenUrl")
                      THEN Thrown(pr, [type |-> "MissingEndpointError"])
                      ELSE IF ~TruthyStr(server, "clientId")
                      THEN Thrown(pr, [type |-> "MissingClientIdError"])
                      ELSE [pr EXCEPT !.pc = "rt_post",
                                      !.req = RefreshParams(currentToken, server),
                                      !.nreq = @ + 1]]
    /\ UNCHANGED <<store, mode, now, ticks, config>>

\* (variant) the response is merged over the stored record,
\* { ...currentToken, ...data }, so fields the response omits survive
RtResponseOk_merge(p, data) ==
    /\ proc[p].pc = "rt_post"
    /\ LET cur == proc[p].currentToken
           newToken == [f \in DOMAIN cur \cup DOMAIN data |->
                           IF f \in DOMAIN data THEN data[f] ELSE cur[f]]
       IN proc' = [proc EXCEPT ![p].pc = "sv_ensure", ![p].resp = data,
                               ![p].newToken = newToken,
                               ![p].saving = newToken]
    /\ UNCHANGED <<store, mode, now, ticks, config>>

\* variant of RtResponseOk: the save is started and not awaited, the new
\* token is returned at once
RtResponseOk_noAwait(p, data) ==
    /\ proc[p].pc = "rt_post"
    /\ LET newToken == Rotate(data, proc[p].currentToken)
       IN proc' = [proc EXCEPT ![p] =
                      Returned([@ EXCEPT !.resp = data,
                                         !.newToken = newToken,
                                         !.saving = newToken], newToken)]
    /\ UNCHANGED <<store, mode, now, ticks, config>>

\* the token endpoint answers 2xx with data; refreshToken keeps or replaces
\* the refresh_token and calls saveToken (up to `await fs.ensureDir`)
RtResponseOk(p, data) ==
    /\ proc[p].pc = "rt_post"
    /\ LET newToken == Rotate(data, proc[p].currentToken)
       IN proc' = [proc EXCEPT ![p].pc = "sv_ensure", ![p].resp = data,
                               ![p].newToken = newToken,
                               ![p].saving = newToken]
    /\ UNCHANGED <<store, mode, now, ticks, config>>

\* JSON.stringify(err.response?.data ?? {})
ErrorBody(data) == IF data = {} THEN "{}" ELSE CHOOSE x \in data : TRUE

\* (variant) a failed refresh removes the stored record before it throws
RtResponseError_dropsRecord(p, status, data) ==
    /\ proc[p].pc = "rt_post"
    /\ proc' = [proc EXCEPT ![p] =
                   Thrown([@ EXCEPT !.rejected = [status |-> status,
                                                  data |-> data]],
                          [type |-> "RefreshFailedError",
                           status |-> status, body |-> ErrorBody(data)])]
    /\ store' = [store EXCEPT ![proc[p].name] = Null]
    /\ mode' = [mode EXCEPT ![proc[p].name] = "none"]
    /\ UNCHANGED <<now, ticks, config>>

\* the token endpoint answers non-2xx: axios rejects with err.response set
RtResponseError(p, status, data) ==
    /\ proc[p].pc = "rt_post"
    /\ proc' = [proc EXCEPT ![p] =
                   Thrown([@ EXCEPT !.rejected = [status |-> status,
                                                  data |-> data]],
                          [type |-> "RefreshFailedError",
                           status |-> status, body |-> ErrorBody(data)])]
    /\ UNCHANGED <<store, mode, now, ticks, config>>

\* no answer from the token endpoint: an AxiosError without err.response, so
\* status is undefined and the body is that of {}
RtNoResponse(p) ==
    /\ proc[p].pc = "rt_post"
    /\ proc' = [proc EXCEPT ![p] =
                   Thrown(@, [type |-> "RefreshFailedError",
                              body |-> ErrorBody({})])]
    /\ UNCHANGED <<store, mode, now, ticks, config>>

\* deleteToken(serverName) up to `await fs.pathExists`
CallDeleteToken(p, n) ==
    /\ proc[p].pc = "idle"
    /\ proc' = [proc EXCEPT ![p] = [IdleProc EXCEPT !.pc = "dt_exists",
                                       !.op = "deleteToken", !.name = n,
                                       !.before = store[n]]]
    /\ UNCHANGED <<store, mode, now, ticks, config>>

\* deleteToken after pathExists: `await fs.remove` when the file exists
DtExists(p) ==
    /\ proc[p].pc = "dt_exists"
    /\ proc' = [proc EXCEPT ![p].pc =
                   IF store[proc[p].name] # Null THEN "dt_remove" ELSE "done"]
    /\ UNCHANGED <<store, mode, now, ticks, config>>

\* the file is removed (fs.remove succeeds also when it is already gone)
DtRemove(p) ==
    /\ proc[p].pc = "dt_remove"
    /\ store' = [store EXCEPT ![proc[p].name] = Null]
    /\ mode' = [mode EXCEPT ![proc[p].name] = "none"]
    /\ proc' = [proc EXCEPT ![p].pc = "done",
                            ![p].wrote = store[proc[p].name] # Null]
    /\ UNCHANGED <<now, ticks, config>>

\* -------------------------------------------------- MCPClient
\* variant of handleAxiosError: only 401 counts as a rejected credential
handleAxiosError_only401(out) ==
    IF ~out.response THEN [type |-> "UnreachableError"]
    ELSE IF out.status = 401
    THEN [type |-> "AuthRejectedError", status |-> out.status]
    ELSE IF out.status # 0 /\ out.status >= 500
    THEN [type |-> "UpstreamError", status |-> out.status]
    ELSE [type |-> "UnexpectedResponseError", status |-> out.status,
          body |-> out.data]

\* handleAxiosError: the error thrown for a failed upstream POST
handleAxiosError(out) ==
    IF ~out.response THEN [type |-> "UnreachableError"]
    ELSE IF out.status = 401 \/ out.status = 403
    THEN [type |-> "AuthRejectedError", status |-> out.status]
    ELSE IF out.status # 0 /\ out.status >= 500
    THEN [type |-> "UpstreamError", status |-> out.status]
    ELSE [type |-> "UnexpectedResponseError", status |-> out.status,
          body |-> out.data]

\* jsonRpcCall(serverName, server, method) up to `await getValidToken`,
\* which runs up to its `await this.loadToken`
CallJsonRpc(p, n, s) ==
    /\ proc[p].pc = "idle"
    /\ proc' = [proc EXCEPT ![p] = [IdleProc EXCEPT !.pc = "gv_load",
                                       !.op = "jsonRpcCall", !.name = n,
                                       !.before = store[n],
                                       !.server = s]]
    /\ UNCHANGED <<store, mode, now, ticks, config>>

\* variant of RpcResponse: a 401 or 403 answer is retried once
RpcResponse_retryRejected(p, out) ==
    /\ proc[p].pc = "rpc_post"
    /\ proc' = [proc EXCEPT ![p] =
                   IF out.response /\ out.status \in {401, 403} /\ @.nup < 2
                   THEN [@ EXCEPT !.nup = @ + 1]
                   ELSE IF ~(out.response /\ out.status >= 200
                               /\ out.status < 300)
                   THEN Thrown(@, handleAxiosError(out))
                   ELSE IF Has(out.data, "error")
                   THEN Thrown(@, [type |-> "MCPServerError",
                                   message |-> out.data.error])
                   ELSE IF ~Has(out.data, "result")
                   THEN Thrown(@, [type |-> "NoResultError"])
                   ELSE [@ EXCEPT !.pc = "done", !.result = out.data.result]]
    /\ UNCHANGED <<store, mode, now, ticks, config>>

\* the upstream POST settles: axios resolves on 2xx and rejects otherwise
RpcResponse(p, out) ==
    /\ proc[p].pc = "rpc_post"
    /\ proc' = [proc EXCEPT ![p] =
                   IF ~(out.response /\ out.status >= 200 /\ out.status < 300)
                   THEN Thrown(@, handleAxiosError(out))
                   ELSE IF Has(out.data, "error")
                   THEN Thrown(@, [type |-> "MCPServerError",
                                   message |-> out.data.error])
                   ELSE IF ~Has(out.data, "result")
                   THEN Thrown(@, [type |-> "NoResultError"])
                   ELSE [@ EXCEPT !.pc = "done", !.result = out.data.result]]
    /\ UNCHANGED <<store, mode, now, ticks, config>>

\* Date.now() advances
Tick(d) ==
    /\ ticks < MaxTicks
    /\ now' = now + d
    /\ ticks' = ticks + 1
    /\ UNCHANGED <<store, mode, proc, config>>

\* the top-level caller has consumed the outcome of the invocation
Finish(p) ==
    /\ proc[p].pc = "done"
    /\ proc' = [proc EXCEPT ![p] = IdleProc]
    /\ UNCHANGED <<store, mode, now, ticks, config>>

\* -------------------------------------------------- OAuth flow
\* generatePKCE: the challenge is the S256 digest of the verifier
generatePKCE(v) ==
    [codeVerifier |-> v, codeChallenge |-> <<"sha256", v>>,
     codeChallengeMethod |-> "S256"]

\* `http://localhost:${callbackPort}/callback`
redirectUri(callbackPort) == <<"http://localhost", callbackPort, "/callback">>

\* buildAuthorizationUrl: the endpoint and the query parameters
buildAuthorizationUrl(server, pkce, state, callbackPort) ==
    [url |-> server.authorizationUrl,
     response_type |-> "code",
     client_id |-> server.clientId,
     redirect_uri |-> redirectUri(callbackPort),
     state |-> state,
     code_challenge |-> pkce.codeChallenge,
     code_challenge_method |-> pkce.codeChallengeMethod]

\* the locals of runOAuthFlow after waitForCallback was called (srv, timer:
\* the HTTP server and the timeout it owns) or before manualCallback (none);
\* outcome is the settlement of the callback promise
NewFlow(s, st, v, manual, callbackPort) ==
    [state |-> st, pkce |-> generatePKCE(v), port |-> callbackPort,
     authUrl |-> buildAuthorizationUrl(s, generatePKCE(v), st, callbackPort),
     manual |-> manual,
     srv |-> IF manual THEN "none" ELSE "starting",
     timer |-> IF manual THEN "none" ELSE "pending",
     started |-> now, outcome |-> None, hits |-> 0, status |-> 0,
     xreq |-> None, nxreq |-> 0]

\* variant of Settle: a later resolve / reject replaces the settlement
Settle_lastWins(f, out) == [f EXCEPT !.outcome = out]

\* resolve / reject: a promise settles once, later calls change nothing
Settle(f, out) == IF f.outcome = None THEN [f EXCEPT !.outcome = out] ELSE f

\* runOAuthFlow(serverName, server, tokenManager, options) up to its first
\* `await`: open(authUrl) after waitForCallback, or manualCallback()
CallRunOAuthFlow(p, n, s, manual, callbackPort, st, v) ==
    /\ proc[p].pc = "idle"
    /\ LET pr == [IdleProc EXCEPT !.op = "runOAuthFlow", !.name = n,
                                  !.server = s, !.before = store[n]]
       IN proc' = [proc EXCEPT ![p] =
                      IF ~TruthyStr(s, "authorizationUrl")
                      THEN Thrown(pr, [type |-> "MissingEndpointError",
                                       field |-> "authorizationUrl"])
                      ELSE IF ~TruthyStr(s, "tokenUrl")
                      THEN Thrown(pr, [type |-> "MissingEndpointError",
                                       field |-> "tokenUrl"])
                      ELSE IF ~TruthyStr(s, "clientId")
                      THEN Thrown(pr, [type |-> "MissingClientIdError"])
                      ELSE [pr EXCEPT !.pc = IF manual THEN "of_manual"
                                                       ELSE "of_open",
                                      !.flow = NewFlow(s, st, v, manual,
                                                       callbackPort)]]
    /\ UNCHANGED <<store, mode, now, ticks, config>>

\* variant of ListenError: a port in use makes the listener try the next
ListenError_nextPort(p) ==
    /\ proc[p].flow # None
    /\ proc[p].flow.srv = "starting"
    /\ proc[p].flow.port < DEFAULT_CALLBACK_PORT + 1
    /\ proc' = [proc EXCEPT ![p].flow.port = @ + 1]
    /\ UNCHANGED <<store, mode, now, ticks, config>>

\* server.listen succeeded: the port is bound (no listener of this process
\* holds it)
ListenOk(p) ==
    /\ proc[p].flow # None
    /\ proc[p].flow.srv = "starting"
    /\ \A q \in Procs \ {p} :
          ~(/\ proc[q].flow # None
            /\ proc[q].flow.srv = "listening"
            /\ proc[q].flow.port = proc[p].flow.port)
    /\ proc' = [proc EXCEPT ![p].flow.srv = "listening"]
    /\ UNCHANGED <<store, mode, now, ticks, config>>

\* server.on('error') with EADDRINUSE: the port is bound by someone else
ListenError(p) ==
    /\ proc[p].flow # None
    /\ proc[p].flow.srv = "starting"
    /\ proc' = [proc EXCEPT ![p].flow =
                   Settle([@ EXCEPT !.srv = "failed", !.timer = "cleared"],
                          [ok |-> FALSE, type |-> "PortInUseError",
                           port |-> @.port])]
    /\ UNCHANGED <<store, mode, now, ticks, config>>

\* variant of RequestHandler: a request to another path ends the wait
RequestHandler_otherPathFails(f, path, q) ==
    IF path # "/callback"
    THEN Settle([f EXCEPT !.status = 404, !.srv = "closing"],
                [ok |-> FALSE, type |-> "MalformedCallbackError"])
    ELSE IF TruthyStr(q, "error")
    THEN Settle([f EXCEPT !.status = 400, !.srv = "closing"],
                [ok |-> FALSE, type |-> "OAuthProviderError",
                 error |-> q.error])
    ELSE IF ~TruthyStr(q, "code") \/ ~TruthyStr(q, "state")
    THEN Settle([f EXCEPT !.status = 400, !.srv = "closing"],
                [ok |-> FALSE, type |-> "MalformedCallbackError"])
    ELSE Settle([f EXCEPT !.status = 200, !.srv = "closing"],
                [ok |-> TRUE, code |-> q.code, state |-> q.state])

\* variant of RequestHandler: the callback is malformed only when code and
\* state are both missing
RequestHandler_partial(f, path, q) ==
    IF path # "/callback"
    THEN [f EXCEPT !.status = 404]
    ELSE IF TruthyStr(q, "error")
    THEN Settle([f EXCEPT !.status = 400, !.srv = "closing"],
                [ok |-> FALSE, type |-> "OAuthProviderError",
                 error |-> q.error])
    ELSE IF ~TruthyStr(q, "code") /\ ~TruthyStr(q, "state")
    THEN Settle([f EXCEPT !.status = 400, !.srv = "closing"],
                [ok |-> FALSE, type |-> "MalformedCallbackError"])
    ELSE Settle([f EXCEPT !.status = 200, !.srv = "closing"],
                [ok |-> TRUE,
                 code |-> IF Has(q, "code") THEN q.code ELSE "",
                 state |-> IF Has(q, "state") THEN q.state ELSE ""])

\* variant of RequestHandler: the listener stays open after a success
RequestHandler_staysOpen(f, path, q) ==
    IF path # "/callback"
    THEN [f EXCEPT !.status = 404]
    ELSE IF TruthyStr(q, "error")
    THEN Settle([f EXCEPT !.status = 400, !.srv = "closing"],
                [ok |-> FALSE, type |-> "OAuthProviderError",
                 error |-> q.error])
    ELSE IF ~TruthyStr(q, "code") \/ ~TruthyStr(q, "state")
    THEN Settle([f EXCEPT !.status = 400, !.srv = "closing"],
                [ok |-> FALSE, type |-> "MalformedCallbackError"])
    ELSE Settle([f EXCEPT !.status = 200],
                [ok |-> TRUE, code |-> q.code, state |-> q.state])

\* variant of RequestHandler: code and state are looked at before error
RequestHandler_codeFirst(f, path, q) ==
    IF path # "/callback"
    THEN [f EXCEPT !.status = 404]
    ELSE IF TruthyStr(q, "code") /\ TruthyStr(q, "state")
    THEN Settle([f EXCEPT !.status = 200, !.srv = "closing"],
                [ok |-> TRUE, code |-> q.code, state |-> q.state])
    ELSE IF TruthyStr(q, "error")
    THEN Settle([f EXCEPT !.status = 400, !.srv = "closing"],
                [ok |-> FALSE, type |-> "OAuthProviderError",
                 error |-> q.error])
    ELSE Settle([f EXCEPT !.status = 400, !.srv = "closing"],
                [ok |-> FALSE, type |-> "MalformedCallbackError"])

\* the request handler of waitForCallback: 404 for another path; for
\* /callback the error parameter first, then code and state; every answer
\* but the 404 calls server.close() and settles the promise
RequestHandler(f, path, q) ==
    IF path # "/callback"
    THEN [f EXCEPT !.status = 404]
    ELSE IF TruthyStr(q, "error")
    THEN Settle([f EXCEPT !.status = 400, !.srv = "closing"],
                [ok |-> FALSE, type |-> "OAuthProviderError",
                 error |-> q.error])
    ELSE IF ~TruthyStr(q, "code") \/ ~TruthyStr(q, "state")
    THEN Settle([f EXCEPT !.status = 400, !.srv = "closing"],
                [ok |-> FALSE, type |-> "MalformedCallbackError"])
    ELSE Settle([f EXCEPT !.status = 200, !.srv = "closing"],
                [ok |-> TRUE, code |-> q.code, state |-> q.state])

\* an HTTP request reaches the listening server
Request(p, path, q) ==
    /\ proc[p].flow # None
    /\ proc[p].flow.srv = "listening"
    /\ proc[p].flow.hits < MaxRequests
    /\ proc' = [proc EXCEPT ![p].flow =
                   RequestHandler([@ EXCEPT !.hits = @ + 1], path, q)]
    /\ UNCHANGED <<store, mode, now, ticks, config>>

\* server.on('close'): the closed server clears the timeout
ServerClosed(p) ==
    /\ proc[p].flow # None
    /\ proc[p].flow.srv = "closing"
    /\ proc' = [proc EXCEPT ![p].flow.srv = "closed",
                            ![p].flow.timer = IF @ = "pending" THEN "cleared"
                                              ELSE @]
    /\ UNCHANGED <<store, mode, now, ticks, config>>

\* variant of Timeout: the timeout closes the server and rejects nothing
Timeout_noReject(p) ==
    /\ proc[p].flow # None
    /\ proc[p].flow.timer = "pending"
    /\ proc[p].flow.srv \in {"listening", "closing"}
    /\ now - proc[p].flow.started >= DEFAULT_TIMEOUT_MS
    /\ proc' = [proc EXCEPT ![p].flow.timer = "fired",
                            ![p].flow.srv = "closing"]
    /\ UNCHANGED <<store, mode, now, ticks, config>>

\* the timeout fires timeoutMs after the start: server.close() and reject.
\* The outcome of listen comes on the first turns of the event loop, before
\* a timer of five minutes.
Timeout(p) ==
    /\ proc[p].flow # None
    /\ proc[p].flow.timer = "pending"
    /\ proc[p].flow.srv \in {"listening", "closing"}
    /\ now - proc[p].flow.started >= DEFAULT_TIMEOUT_MS
    /\ proc' = [proc EXCEPT ![p].flow =
                   Settle([@ EXCEPT !.timer = "fired", !.srv = "closing"],
                          [ok |-> FALSE, type |-> "CallbackTimeoutError"])]
    /\ UNCHANGED <<store, mode, now, ticks, config>>

\* `await open(authUrl)` is over (a failure to open the browser is ignored)
OpenSettled(p) ==
    /\ proc[p].pc = "of_open"
    /\ proc' = [proc EXCEPT ![p].pc = "of_wait"]
    /\ UNCHANGED <<store, mode, now, ticks, config>>

\* manualCallback: the user answers the prompt; the pasted text is parsed
\* as a URL and only code and state are looked at
ManualAnswer(p, u) ==
    /\ proc[p].pc = "of_manual"
    /\ proc' = [proc EXCEPT ![p].pc = "of_wait",
                            ![p].flow =
                   IF ~u.valid
                   THEN Settle(@, [ok |-> FALSE,
                                   type |-> "MalformedCallbackError"])
                   ELSE IF ~TruthyStr(u.query, "code")
                           \/ ~TruthyStr(u.query, "state")
                   THEN Settle(@, [ok |-> FALSE,
                                   type |-> "MalformedCallbackError"])
                   ELSE Settle(@, [ok |-> TRUE, code |-> u.query.code,
                                   state |-> u.query.state])]
    /\ UNCHANGED <<store, mode, now, ticks, config>>

\* exchangeCodeForToken: the form body of the POST to the token endpoint
ExchangeParams(server, code, pkce, callbackPort) ==
    LET base == [url |-> server.tokenUrl,
                 grant_type |-> "authorization_code",
                 code |-> code,
                 redirect_uri |-> redirectUri(callbackPort),
                 client_id |-> server.clientId,
                 code_verifier |-> pkce.codeVerifier]
    IN IF TruthyStr(server, "clientSecret")
       THEN Put(base, "client_secret", server.clientSecret)
       ELSE base

\* variant of FlowCallback: the PKCE parameters live in one place shared by
\* the attempts of the process, the latest attempt's are used
FlowCallback_sharedPkce(p) ==
    /\ proc[p].pc = "of_wait"
    /\ proc[p].flow.outcome # None
    /\ LET f == proc[p].flow
           out == f.outcome
           others == {q \in Procs \ {p} : proc[q].flow # None}
           pkce == IF others = {} THEN f.pkce
                   ELSE proc[CHOOSE q \in others : TRUE].flow.pkce
       IN proc' = [proc EXCEPT ![p] =
                      IF ~out.ok
                      THEN Thrown(@, out)
                      ELSE IF out.state # f.state
                      THEN Thrown(@, [type |-> "StateMismatchError"])
                      ELSE [@ EXCEPT !.pc = "of_exchange",
                                     !.flow.xreq =
                                         ExchangeParams(proc[p].server,
                                             out.code, pkce, f.port),
                                     !.flow.nxreq = @ + 1]]
    /\ UNCHANGED <<store, mode, now, ticks, config>>

\* variant of FlowCallback: the state of the callback is not compared
FlowCallback_noStateCheck(p) ==
    /\ proc[p].pc = "of_wait"
    /\ proc[p].flow.outcome # None
    /\ LET f == proc[p].flow
           out == f.outcome
       IN proc' = [proc EXCEPT ![p] =
                      IF ~out.ok
                      THEN Thrown(@, out)
                      ELSE [@ EXCEPT !.pc = "of_exchange",
                                     !.flow.xreq =
                                         ExchangeParams(proc[p].server,
                                             out.code, f.pkce, f.port),
                                     !.flow.nxreq = @ + 1]]
    /\ UNCHANGED <<store, mode, now, ticks, config>>

\* runOAuthFlow after the callback promise settled: a rejection is thrown
\* on; otherwise the CSRF check, then exchangeCodeForToken up to
\* `await axios.post`
FlowCallback(p) ==
    /\ proc[p].pc = "of_wait"
    /\ proc[p].flow.outcome # None
    /\ LET f == proc[p].flow
           out == f.outcome
       IN proc' = [proc EXCEPT ![p] =
                      IF ~out.ok
                      THEN Thrown(@, out)
                      ELSE IF out.state # f.state
                      THEN Thrown(@, [type |-> "StateMismatchError"])
                      ELSE [@ EXCEPT !.pc = "of_exchange",
                                     !.flow.xreq =
                                         ExchangeParams(proc[p].server,
                                             out.code, f.pkce, f.port),
                                     !.flow.nxreq = @ + 1]]
    /\ UNCHANGED <<store, mode, now, ticks, config>>

\* the token endpoint answers the exchange 2xx with data; runOAuthFlow
\* calls saveToken (up to `await fs.ensureDir`)
ExchangeOk(p, data) ==
    /\ proc[p].pc = "of_exchange"
    /\ proc' = [proc EXCEPT ![p].pc = "sv_ensure", ![p].resp = data,
                            ![p].newToken = data, ![p].saving = data,
                            ![p].arg = data]
    /\ UNCHANGED <<store, mode, now, ticks, config>>

\* variant of ExchangeError: a refused exchange removes the stored record
ExchangeError_dropsRecord(p, status, data) ==
    /\ proc[p].pc = "of_exchange"
    /\ proc' = [proc EXCEPT ![p] =
                   Thrown([@ EXCEPT !.rejected = [status |-> status,
                                                  data |-> data]],
                          [type |-> "TokenExchangeError",
                           status |-> status, body |-> ErrorBody(data)])]
    /\ store' = [store EXCEPT ![proc[p].name] = Null]
    /\ mode' = [mode EXCEPT ![proc[p].name] = "none"]
    /\ UNCHANGED <<now, ticks, config>>

\* variant of ExchangeError: the axios error is thrown on as it is
ExchangeError_generic(p, status, data) ==
    /\ proc[p].pc = "of_exchange"
    /\ proc' = [proc EXCEPT ![p] =
                   Thrown([@ EXCEPT !.rejected = [status |-> status,
                                                  data |-> data]],
                          [type |-> "AxiosError"])]
    /\ UNCHANGED <<store, mode, now, ticks, config>>

\* no answer to the exchange: an AxiosError without err.response, so status
\* is undefined and the body is that of {}
ExchangeNoResponse(p) ==
    /\ proc[p].pc = "of_exchange"
    /\ proc' = [proc EXCEPT ![p] =
                   Thrown(@, [type |-> "TokenExchangeError",
                              body |-> ErrorBody({})])]
    /\ UNCHANGED <<store, mode, now, ticks, config>>

\* the token endpoint answers the exchange non-2xx
ExchangeError(p, status, data) ==
    /\ proc[p].pc = "of_exchange"
    /\ proc' = [proc EXCEPT ![p] =
                   Thrown([@ EXCEPT !.rejected = [status |-> status,
                                                  data |-> data]],
                          [type |-> "TokenExchangeError",
                           status |-> status, body |-> ErrorBody(data)])]
    /\ UNCHANGED <<store, mode, now, ticks, config>>

\* the steps of a runOAuthFlow invocation and of its listener
FlowStep(p) ==
    \/ ListenOk(p)
    \/ ListenError(p)
    \/ \E path \in Paths, q \in Queries : Request(p, path, q)
    \/ ServerClosed(p)
    \/ Timeout(p)
    \/ OpenSettled(p)
    \/ \E u \in PastedUrls : ManualAnswer(p, u)
    \/ FlowCallback(p)
    \/ \E data \in ExchangeResponses(now) : ExchangeOk(p, data)
    \/ \E st \in ErrorStatuses, d \in ErrorData : ExchangeError(p, st, d)
    \/ ExchangeNoResponse(p)
    \/ SaveStamp(p)
    \/ SaveWrite(p)
    \/ SaveChmod(p)
    \/ Finish(p)

\* -------------------------------------------------- ConfigManager
\* getTokenPath(serverName)
getTokenPath(n) == <<"tokens", n>>

\* the entry addServer registers: { name, url, oauth: { tokenPath,
\* ...oauthOptions } }
NewEntry(n, url, oauthOptions) ==
    [name |-> n, url |-> url,
     oauth |-> [f \in {"tokenPath"} \cup DOMAIN oauthOptions |->
                   IF f \in DOMAIN oauthOptions THEN oauthOptions[f]
                   ELSE getTokenPath(n)]]

\* config.servers[name] = entry
WithServer(cfg, n, entry) ==
    [cfg EXCEPT !.servers = [m \in DOMAIN cfg.servers \cup {n} |->
                                IF m = n THEN entry ELSE cfg.servers[m]]]

\* delete config.servers[name]
WithoutServer(cfg, n) ==
    [cfg EXCEPT !.servers = [m \in DOMAIN cfg.servers \ {n} |->
                                cfg.servers[m]]]

\* addServer(name, url, oauthOptions) up to `await this.load()`
CallAddServer(p, n, url, oauthOptions) ==
    /\ proc[p].pc = "idle"
    /\ proc' = [proc EXCEPT ![p] =
                   [IdleProc EXCEPT !.pc = "as_load", !.op = "addServer",
                                    !.name = n, !.before = store[n],
                                    !.arg = NewEntry(n, url, oauthOptions)]]
    /\ UNCHANGED <<store, mode, now, ticks, config>>

\* variant of AsLoad: an existing entry is replaced
AsLoad_overwrite(p) ==
    /\ proc[p].pc = "as_load"
    /\ proc' = [proc EXCEPT ![p].pc = "as_save",
                            ![p].cfg = WithServer(config, proc[p].name,
                                                  proc[p].arg)]
    /\ UNCHANGED <<store, mode, now, ticks, config>>

\* addServer after load: a registered name throws, otherwise the entry is
\* put into the loaded config and `await this.save(config)` starts
AsLoad(p) ==
    /\ proc[p].pc = "as_load"
    /\ proc' = [proc EXCEPT ![p] =
                   IF proc[p].name \in DOMAIN config.servers
                   THEN Thrown([@ EXCEPT !.cfg = config],
                               [type |-> "AlreadyExistsError",
                                name |-> proc[p].name])
                   ELSE [@ EXCEPT !.pc = "as_save",
                                  !.cfg = WithServer(config, proc[p].name,
                                                     proc[p].arg)]]
    /\ UNCHANGED <<store, mode, now, ticks, config>>

\* save(config): the config file is written
AsSave(p) ==
    /\ proc[p].pc = "as_save"
    /\ config' = proc[p].cfg
    /\ proc' = [proc EXCEPT ![p].pc = "done"]
    /\ UNCHANGED <<store, mode, now, ticks>>

\* removeServer(name) up to `await this.load()`
CallRemoveServer(p, n) ==
    /\ proc[p].pc = "idle"
    /\ proc' = [proc EXCEPT ![p] =
                   [IdleProc EXCEPT !.pc = "rs_load", !.op = "removeServer",
                                    !.name = n, !.before = store[n]]]
    /\ UNCHANGED <<store, mode, now, ticks, config>>

\* removeServer after load: an unknown name throws, otherwise the entry is
\* deleted from the loaded config; then `await fs.pathExists(tokenPath)`
RsLoad(p) ==
    /\ proc[p].pc = "rs_load"
    /\ proc' = [proc EXCEPT ![p] =
                   IF proc[p].name \notin DOMAIN config.servers
                   THEN Thrown([@ EXCEPT !.cfg = config],
                               [type |-> "NotFoundError",
                                name |-> proc[p].name])
                   ELSE [@ EXCEPT !.pc = "rs_exists",
                                  !.cfg = WithoutServer(config,
                                                        proc[p].name)]]
    /\ UNCHANGED <<store, mode, now, ticks, config>>

\* removeServer after pathExists: `await fs.remove` when the token file
\* exists, otherwise `await this.save(config)`
RsExists(p) ==
    /\ proc[p].pc = "rs_exists"
    /\ proc' = [proc EXCEPT ![p].pc =
                   IF store[proc[p].name] # Null THEN "rs_remove"
                   ELSE "rs_save"]
    /\ UNCHANGED <<store, mode, now, ticks, config>>

\* variant of RsRemove: the token file is left in place
RsRemove_keepsToken(p) ==
    /\ proc[p].pc = "rs_remove"
    /\ proc' = [proc EXCEPT ![p].pc = "rs_save"]
    /\ UNCHANGED <<store, mode, now, ticks, config>>

\* the token file is removed; then `await this.save(config)`
RsRemove(p) ==
    /\ proc[p].pc = "rs_remove"
    /\ store' = [store EXCEPT ![proc[p].name] = Null]
    /\ mode' = [mode EXCEPT ![proc[p].name] = "none"]
    /\ proc' = [proc EXCEPT ![p].pc = "rs_save",
                            ![p].wrote = store[proc[p].name] # Null]
    /\ UNCHANGED <<now, ticks, config>>

\* save(config): the config file is written without the entry
RsSave(p) ==
    /\ proc[p].pc = "rs_save"
    /\ config' = proc[p].cfg
    /\ proc' = [proc EXCEPT ![p].pc = "done"]
    /\ UNCHANGED <<store, mode, now, ticks>>

\* getServer(name) up to `await this.load()`
CallGetServer(p, n) ==
    /\ proc[p].pc = "idle"
    /\ proc' = [proc EXCEPT ![p] =
                   [IdleProc EXCEPT !.pc = "gs_load", !.op = "getServer",
                                    !.name = n, !.before = store[n]]]
    /\ UNCHANGED <<store, mode, now, ticks, config>>

\* getServer after load: the entry, or an unknown name throws
GsLoad(p) ==
    /\ proc[p].pc = "gs_load"
    /\ proc' = [proc EXCEPT ![p] =
                   IF proc[p].name \notin DOMAIN config.servers
                   THEN Thrown([@ EXCEPT !.cfg = config],
                               [type |-> "NotFoundError",
                                name |-> proc[p].name])
                   ELSE [@ EXCEPT !.pc = "done", !.cfg = config,
                                  !.result = config.servers[proc[p].name]]]
    /\ UNCHANGED <<store, mode, now, ticks, config>>

\* the steps of a ConfigManager operation in flight
RegistryStep(p) ==
    \/ AsLoad(p)
    \/ AsSave(p)
    \/ RsLoad(p)
    \/ RsExists(p)
    \/ RsRemove(p)
    \/ RsSave(p)
    \/ GsLoad(p)

\* -------------------------------------------------- bridge API
\* authHeader.startsWith(prefix)
startsWith(h, prefix) ==
    Len(h) >= Len(prefix) /\ SubSeq(h, 1, Len(prefix)) = prefix

\* authHeader.slice(k)
slice(h, k) == SubSeq(h, k + 1, Len(h))

\* config.auth.password ?? config.auth.token, as {} or {value}
expected(cfg) ==
    IF Has(cfg.auth, "password") THEN {cfg.auth.password}
    ELSE IF Has(cfg.auth, "token") THEN {cfg.auth.token}
    ELSE {}

\* variant of authMiddleware: the scheme of the header is not looked at
authMiddleware_anyScheme(cfg, authorization) ==
    IF authorization = {} THEN 401
    ELSE IF \E h \in authorization :
               \/ expected(cfg) = {} \/ expected(cfg) = {<<>>}
               \/ expected(cfg) # {slice(h, 7)}
         THEN 401
         ELSE 0

\* authMiddleware(config): 401, or 0 when it calls next()
authMiddleware(cfg, authorization) ==
    IF \A h \in authorization : ~startsWith(h, Bearer) THEN 401
    ELSE IF \E h \in authorization :
               \/ expected(cfg) = {} \/ expected(cfg) = {<<>>}
               \/ expected(cfg) # {slice(h, 7)}
         THEN 401
         ELSE 0

\* the status the bridge answers once the route's work is over: the one
\* already set, or 200, or from the catch block 401 when the message names
\* a rejected credential and 502 otherwise
BridgeStatus(pr) ==
    IF pr.http.status # 0 THEN pr.http.status
    ELSE IF pr.error = None THEN 200
    ELSE IF Has(pr.error, "type") /\ pr.error.type = "AuthRejectedError"
    THEN 401
    ELSE 502

\* a request arrives: the route's middleware and handler up to the first
\* `await` (tokenManager.loadToken in /servers, getValidToken's loadToken
\* under listTools and callTool), or up to the answer
BridgeRequest(p, r) ==
    /\ proc[p].pc = "idle"
    /\ LET base == [IdleProc EXCEPT !.op = "bridge", !.name = r.server,
                                    !.http = [req |-> r, status |-> 0,
                                              pending |-> {},
                                              servers |-> {}]]
           answer(st) == [base EXCEPT !.pc = "done", !.http.status = st]
           call == [base EXCEPT !.pc = "gv_load", !.op = "jsonRpcCall",
                                !.before = store[r.server],
                                !.server = config.servers[r.server].oauth]
       IN proc' = [proc EXCEPT ![p] =
             IF r.method = "GET" /\ r.route = "/health" THEN answer(200)
             ELSE IF authMiddleware(config, r.authorization) # 0
             THEN answer(401)
             ELSE IF r.method = "GET" /\ r.route = "/servers"
             THEN IF DOMAIN config.servers = {} THEN answer(200)
                  ELSE [base EXCEPT !.pc = "bs_load",
                                    !.http.pending = DOMAIN config.servers]
             ELSE IF r.method = "GET" /\ r.route = "/mcp/:server/tools"
             THEN IF r.server \notin DOMAIN config.servers THEN answer(404)
                  ELSE call
             ELSE IF r.method = "POST" /\ r.route = "/mcp/:server/call"
             THEN IF r.server \notin DOMAIN config.servers THEN answer(404)
                  ELSE IF r.tool = {} THEN answer(400)
                  ELSE call
             ELSE answer(404)]
    /\ UNCHANGED <<store, mode, now, ticks, config>>

\* /servers: loadToken of the next registered server has answered; the
\* loop goes on, or the list is sent
BsLoad(p) ==
    /\ proc[p].pc = "bs_load"
    /\ \E n \in proc[p].http.pending :
          LET token == store[n]
              row == [name |-> n, url |-> config.servers[n].url,
                      hasToken |-> token # Null,
                      tokenExpired |-> IF token # Null
                                       THEN {isExpired(token, now)} ELSE {}]
              rest == proc[p].http.pending \ {n}
          IN proc' = [proc EXCEPT ![p].http.pending = rest,
                                  ![p].http.servers = @ \cup {row},
                                  ![p].http.status =
                                      IF rest = {} THEN 200 ELSE 0,
                                  ![p].pc =
                                      IF rest = {} THEN "done" ELSE "bs_load"]
    /\ UNCHANGED <<store, mode, now, ticks, config>>

\* the steps of an invocation in flight
Step(p) ==
    \/ SaveStamp(p)
    \/ SaveWrite(p)
    \/ SaveChmod(p)
    \/ GvLoad(p)
    \/ RtLoad(p)
    \/ \E st \in ErrorStatuses, d \in ErrorData : RtResponseError(p, st, d)
    \/ RtNoResponse(p)
    \/ DtExists(p)
    \/ DtRemove(p)
    \/ Finish(p)

\* Sequential use of the TokenManager (tokens.ts:118 "For single-process
\* sequential use only"): one flow of control, so an invocation starts when
\* the previous one is over.
Next ==
    \/ \E p \in SeqProcs, n \in SeqNames, t \in TokenInputs(now) :
          CallSaveToken(p, n, t)
    \/ \E p \in SeqProcs, n \in SeqNames, s \in Servers :
          CallGetValidToken(p, n, s)
    \/ \E p \in SeqProcs, n \in SeqNames, s \in Servers :
          CallRefreshToken(p, n, s)
    \/ \E p \in SeqProcs, n \in SeqNames : CallDeleteToken(p, n)
    \/ \E p \in SeqProcs, t \in ExpiryInputs(now) : CallIsExpired(p, t)
    \/ \E p \in SeqProcs : Step(p)
    \/ \E p \in SeqProcs, data \in RefreshResponses(now) :
          RtResponseOk(p, data)
    \/ \E d \in TickSteps : Tick(d)

Spec == Init /\ [][Next]_vars

\* Sequential use of the Token Store: saves, loads and expiry checks, with
\* getValidToken on the records they leave.
NextStore ==
    \/ \E p \in SeqProcs, n \in SeqNames, t \in StoreTokens(now) :
          CallSaveToken(p, n, t)
    \/ \E p \in SeqProcs, n \in SeqNames, t \in StoreTokens(now) :
          CallSaveThenLoad(p, n, t)
    \/ \E p \in SeqProcs, n \in SeqNames : CallLoadThenSave(p, n)
    \/ \E p \in SeqProcs, n \in SeqNames : CallLoadToken(p, n)
    \/ \E p \in SeqProcs, n \in SeqNames : CallHasToken(p, n)
    \/ \E p \in SeqProcs, n \in SeqNames : CallDeleteToken(p, n)
    \/ \E p \in SeqProcs, t \in StoreTokens(now) : CallIsExpired(p, t)
    \/ \E p \in SeqProcs, n \in SeqNames, s \in CallerServers :
          CallGetValidToken(p, n, s)
    \/ \E p \in SeqProcs : Step(p)
    \/ \E p \in SeqProcs : LtLoad(p)
    \/ \E p \in SeqProcs : HtExists(p)
    \/ \E p \in SeqProcs, data \in CallerResponses(now) :
          RtResponseOk(p, data)
    \/ \E d \in TickSteps : Tick(d)

SpecStore == Init /\ [][NextStore]_vars

\* Concurrent use of one TokenManager: two flows of control whose steps
\* interleave at every `await`, on two identities.
NextConc ==
    \/ \E p \in Procs, n \in Names, t \in ConcTokens(now) :
          CallSaveToken(p, n, t)
    \/ \E p \in Procs, n \in SeqNames, s \in ConcServers :
          CallGetValidToken(p, n, s)
    \/ \E p \in Procs, n \in SeqNames : CallDeleteToken(p, n)
    \/ \E p \in Procs : Step(p)
    \/ \E p \in Procs, data \in CallerResponses(now) : RtResponseOk(p, data)

SpecConc == Init /\ [][NextConc]_vars

\* The authorization flow, run by one flow of control on an identity that
\* has a stored record or none.
NextFlow ==
    \/ \E p \in SeqProcs, n \in SeqNames, s \in FlowServers,
          manual \in BOOLEAN, st \in States, v \in Verifiers :
          CallRunOAuthFlow(p, n, s, manual, DEFAULT_CALLBACK_PORT, st, v)
    \/ \E p \in SeqProcs, n \in SeqNames, t \in ConcTokens(now) :
          CallSaveToken(p, n, t)
    \/ \E p \in SeqProcs : FlowStep(p)
    \/ \E d \in TickSteps : Tick(d)

SpecFlow == Init /\ [][NextFlow]_vars

\* One authorization flow that waits on its Callback Listener, with the
\* scheduling of the event loop: the outcome of listen is delivered, the
\* clock advances (here by whole timeouts) and a due timer fires.
NextListener ==
    \/ \E p \in SeqProcs, n \in SeqNames, s \in ListenerServers,
          st \in States, v \in Verifiers :
          CallRunOAuthFlow(p, n, s, FALSE, DEFAULT_CALLBACK_PORT, st, v)
    \/ \E p \in SeqProcs : ListenOk(p)
    \/ \E p \in SeqProcs : ListenError(p)
    \/ \E p \in SeqProcs, path \in Paths, q \in Queries : Request(p, path, q)
    \/ \E p \in SeqProcs : ServerClosed(p)
    \/ \E p \in SeqProcs : Timeout(p)
    \/ \E p \in SeqProcs : OpenSettled(p)
    \/ \E p \in SeqProcs : FlowCallback(p)
    \/ \E p \in SeqProcs, data \in ExchangeResponses(now) : ExchangeOk(p, data)
    \/ \E p \in SeqProcs, st \in ErrorStatuses, d \in ErrorData :
          ExchangeError(p, st, d)
    \/ \E p \in SeqProcs : SaveStamp(p)
    \/ \E p \in SeqProcs : SaveWrite(p)
    \/ \E p \in SeqProcs : SaveChmod(p)
    \/ \E p \in SeqProcs : Finish(p)
    \/ Tick(DEFAULT_TIMEOUT_MS)

ListenerFairness ==
    /\ \A p \in SeqProcs : WF_vars(ListenOk(p) \/ ListenError(p))
    /\ \A p \in SeqProcs : WF_vars(Timeout(p))
    /\ \A p \in SeqProcs : WF_vars(ServerClosed(p))
    /\ WF_vars(Tick(DEFAULT_TIMEOUT_MS))

SpecListener == Init /\ [][NextListener]_vars /\ ListenerFairness

\* Concurrent authorization attempts of one process: two flows of control,
\* each with its own identity and callback port.
NextAttempts ==
    \/ \E p \in Procs, n \in Names, s \in ListenerServers,
          port \in Ports, st \in AttemptStates, v \in AttemptVerifiers :
          CallRunOAuthFlow(p, n, s, FALSE, port, st, v)
    \/ \E p \in Procs : ListenOk(p)
    \/ \E p \in Procs : ListenError(p)
    \/ \E p \in Procs, q \in AttemptQueries : Request(p, "/callback", q)
    \/ \E p \in Procs : ServerClosed(p)
    \/ \E p \in Procs : OpenSettled(p)
    \/ \E p \in Procs : FlowCallback(p)
    \/ \E p \in Procs, data \in AttemptResponses : ExchangeOk(p, data)
    \/ \E p \in Procs : SaveStamp(p)
    \/ \E p \in Procs : SaveWrite(p)
    \/ \E p \in Procs : SaveChmod(p)
    \/ \E p \in Procs : Finish(p)

SpecAttempts == Init /\ [][NextAttempts]_vars

\* Sequential use of the MCPClient: authorized calls (and bare getValidToken
\* calls) on records saved by an authorization or a refresh.
NextCaller ==
    \/ \E p \in SeqProcs, n \in SeqNames, t \in CallerTokens(now) :
          CallSaveToken(p, n, t)
    \/ \E p \in SeqProcs, n \in SeqNames, s \in CallerServers :
          CallGetValidToken(p, n, s)
    \/ \E p \in SeqProcs, n \in SeqNames, s \in CallerServers :
          CallJsonRpc(p, n, s)
    \/ \E p \in SeqProcs, n \in SeqNames : CallDeleteToken(p, n)
    \/ \E p \in SeqProcs : Step(p)
    \/ \E p \in SeqProcs, data \in CallerResponses(now) :
          RtResponseOk(p, data)
    \/ \E p \in SeqProcs, out \in UpstreamOutcomes : RpcResponse(p, out)
    \/ \E d \in TickSteps : Tick(d)

SpecCaller == Init /\ [][NextCaller]_vars

\* Sequential use of the registry and of the Token Store on two identities:
\* servers are added, looked up and removed, records saved, read and deleted.
NextRegistry ==
    \/ \E p \in SeqProcs, n \in Names, url \in Urls, o \in OAuthOptions :
          CallAddServer(p, n, url, o)
    \/ \E p \in SeqProcs, n \in Names : CallRemoveServer(p, n)
    \/ \E p \in SeqProcs, n \in Names : CallGetServer(p, n)
    \/ \E p \in SeqProcs : RegistryStep(p)
    \/ \E p \in SeqProcs, n \in Names, t \in RegistryTokens(now) :
          CallSaveToken(p, n, t)
    \/ \E p \in SeqProcs, n \in Names : CallDeleteToken(p, n)
    \/ \E p \in SeqProcs, n \in Names : CallHasToken(p, n)
    \/ \E p \in SeqProcs, n \in Names : CallLoadToken(p, n)
    \/ \E p \in SeqProcs : SaveStamp(p)
    \/ \E p \in SeqProcs : SaveWrite(p)
    \/ \E p \in SeqProcs : SaveChmod(p)
    \/ \E p \in SeqProcs : DtExists(p)
    \/ \E p \in SeqProcs : DtRemove(p)
    \/ \E p \in SeqProcs : HtExists(p)
    \/ \E p \in SeqProcs : LtLoad(p)
    \/ \E p \in SeqProcs : Finish(p)

SpecRegistry == Init /\ [][NextRegistry]_vars

\* A bridge started on a config file with one registered server and any of
\* the auth sections the file can hold.
InitBridge ==
    /\ store = [n \in Names |-> Null]
    /\ mode = [n \in Names |-> "none"]
    /\ now = Now0
    /\ ticks = 0
    /\ proc = [p \in Procs |-> IdleProc]
    /\ \E a \in AuthConfigs :
          config = [auth |-> a,
                    servers |-> [n \in SeqNames |->
                                    NewEntry(n, "u1",
                                             MkServer({"T"}, {"cid"}, {}))]]

\* Requests to the bridge, one at a time, on records saved beforehand.
NextBridge ==
    \/ \E p \in SeqProcs, r \in BridgeRequests : BridgeRequest(p, r)
    \/ \E p \in SeqProcs : BsLoad(p)
    \/ \E p \in SeqProcs, n \in SeqNames, t \in BridgeTokens(now) :
          CallSaveToken(p, n, t)
    \/ \E p \in SeqProcs : SaveStamp(p)
    \/ \E p \in SeqProcs : SaveWrite(p)
    \/ \E p \in SeqProcs : SaveChmod(p)
    \/ \E p \in SeqProcs : GvLoad(p)
    \/ \E p \in SeqProcs : RtLoad(p)
    \/ \E p \in SeqProcs, data \in CallerResponses(now) :
          RtResponseOk(p, data)
    \/ \E p \in SeqProcs, st \in ErrorStatuses, d \in ErrorData :
          RtResponseError(p, st, d)
    \/ \E p \in SeqProcs, out \in BridgeOutcomes : RpcResponse(p, out)
    \/ \E p \in SeqProcs : Finish(p)

SpecBridge == InitBridge /\ [][NextBridge]_vars

\* Two concurrent getValidToken invocations on one expired record, against
\* a token endpoint that rotates the refresh credential with every
\* successful answer: its first answer carries r2, its second r3.
RaceRecord(t) == MkToken("old", {"r1"}, {}, {t - 1000})

Issued(k) ==
    IF k = 1 THEN MkToken("a2", {"r2"}, {300}, {})
    ELSE MkToken("a3", {"r3"}, {300}, {})

\* the answers the token endpoint has given so far
Answers == {proc[q].resp : q \in Procs} \ {None}

InitRace ==
    /\ store = [n \in Names |->
                   IF n \in SeqNames THEN RaceRecord(Now0) ELSE Null]
    /\ mode = [n \in Names |-> IF n \in SeqNames THEN "0600" ELSE "none"]
    /\ now = Now0
    /\ ticks = 0
    /\ proc = [p \in Procs |-> IdleProc]
    /\ config = DefaultConfig

NextRace ==
    \/ \E p \in Procs, n \in SeqNames, s \in ConcServers :
          CallGetValidToken(p, n, s)
    \/ \E p \in Procs : GvLoad(p)
    \/ \E p \in Procs : RtLoad(p)
    \/ \E p \in Procs : RtResponseOk(p, Issued(Cardinality(Answers) + 1))
    \/ \E p \in Procs, d \in ErrorData : RtResponseError(p, 400, d)
    \/ \E p \in Procs : SaveStamp(p)
    \/ \E p \in Procs : SaveWrite(p)
    \/ \E p \in Procs : SaveChmod(p)

SpecRace == InitRace /\ [][NextRace]_vars

\* Sequences of refreshes of one identity, one after the other.
NextSequence ==
    \/ \E p \in SeqProcs, n \in SeqNames, t \in SequenceTokens(now) :
          CallSaveToken(p, n, t)
    \/ \E p \in SeqProcs, n \in SeqNames, s \in SequenceServers :
          CallRefreshToken(p, n, s)
    \/ \E p \in SeqProcs, n \in SeqNames, s \in SequenceServers :
          CallGetValidToken(p, n, s)
    \/ \E p \in SeqProcs : GvLoad(p)
    \/ \E p \in SeqProcs : RtLoad(p)
    \/ \E p \in SeqProcs, data \in SequenceResponses : RtResponseOk(p, data)
    \/ \E p \in SeqProcs, st \in ErrorStatuses, d \in ErrorData :
          RtResponseError(p, st, d)
    \/ \E p \in SeqProcs : SaveStamp(p)
    \/ \E p \in SeqProcs : SaveWrite(p)
    \/ \E p \in SeqProcs : SaveChmod(p)
    \/ \E p \in SeqProcs : Finish(p)

SpecSequence == Init /\ [][NextSequence]_vars

\* ================================================================ claims
\* an optional property as a set: {} when absent, {value} when present
Opt(o, f) == IF Has(o, f) THEN {o[f]} ELSE {}

ErrType(pr) == IF Has(pr.error, "type") THEN pr.error.type ELSE "none"

IsRecord(tok) == Has(tok, "access_token")

Done(p) == proc[p].pc = "done"

\* the invocation went through getValidToken
ViaGetValidToken(p) == proc[p].op \in {"getValidToken", "jsonRpcCall"}

\* the invocation has returned from getValidToken with a record
GotToken(p) ==
    /\ ViaGetValidToken(p)
    /\ proc[p].pc \in {"done", "rpc_post"}
    /\ IF proc[p].op = "getValidToken" THEN ErrType(proc[p]) = "none"
       ELSE proc[p].nup = 1

\* the refresh credential a refresh keeps or replaces, by the rotation policy
RotatedRefresh(resp, stored) ==
    IF TruthyStr(resp, "refresh_token") THEN Opt(resp, "refresh_token")
    ELSE Opt(stored, "refresh_token")

\* C1: when the stored record is expired and carries a refresh credential,
\* the descriptor has a token endpoint and a client id and the token endpoint
\* answers 2xx, getValidToken returns a record with the access token of the
\* refresh response and with the response's refresh credential if it carried
\* one, otherwise with the previously stored one.
C1_ExpiredIsRefreshed ==
    \A p \in Procs :
        (/\ proc[p].op = "getValidToken" /\ Done(p)
         /\ IsRecord(proc[p].before)
         /\ TruthyNum(proc[p].before, "expires_at")
         /\ proc[p].before.expires_at - proc[p].checked.at < TOKEN_EXPIRY_BUFFER_MS
         /\ TruthyStr(proc[p].before, "refresh_token")
         /\ TruthyStr(proc[p].server, "tokenUrl")
         /\ TruthyStr(proc[p].server, "clientId")
         /\ proc[p].rejected = None /\ ErrType(proc[p]) # "RefreshFailedError")
        => /\ IsRecord(proc[p].resp)
           /\ IsRecord(proc[p].result)
           /\ ErrType(proc[p]) = "none"
           /\ proc[p].result.access_token = proc[p].resp.access_token
           /\ Opt(proc[p].result, "refresh_token")
                = RotatedRefresh(proc[p].resp, proc[p].before)

C1_Witness ==
    \E p \in Procs :
        /\ proc[p].op = "getValidToken" /\ Done(p)
        /\ IsRecord(proc[p].before) /\ IsRecord(proc[p].result)
        /\ proc[p].before.access_token = "old"
        /\ Opt(proc[p].before, "refresh_token") = {"r1"}
        /\ Opt(proc[p].before, "expires_at") = {proc[p].checked.at - 1000}
        /\ IsRecord(proc[p].resp) /\ ~Has(proc[p].resp, "refresh_token")
        /\ proc[p].result.access_token = "new"
        /\ proc[p].result.refresh_token = "r1"

\* C2: after a successful refresh the stored record's refresh credential is
\* still R1 when the response omitted a refresh credential, and exactly R2
\* when the response included R2.
C2_RotationStored ==
    \A p \in Procs :
        (/\ proc[p].op \in {"refreshToken", "getValidToken"} /\ Done(p)
         /\ IsRecord(proc[p].resp))
        => /\ IsRecord(store[proc[p].name])
           /\ Opt(store[proc[p].name], "refresh_token")
                = RotatedRefresh(proc[p].resp, proc[p].before)
           /\ Opt(store[proc[p].name], "refresh_token") # {}

C2_Witness ==
    \E p \in Procs :
        /\ proc[p].op = "refreshToken" /\ Done(p)
        /\ IsRecord(proc[p].resp)
        /\ Opt(proc[p].before, "refresh_token") = {"r1"}
        /\ Opt(proc[p].resp, "refresh_token") = {"r2"}
        /\ Opt(store[proc[p].name], "refresh_token") = {"r2"}

\* C3: when the stored record is not expired, getValidToken returns exactly
\* the stored record, sends no request to the token endpoint and leaves the
\* stored record unchanged.
C3_ValidIsReturnedUntouched ==
    \A p \in Procs :
        (/\ proc[p].op = "getValidToken" /\ Done(p)
         /\ IsRecord(proc[p].before)
         /\ ~isExpired(proc[p].before, proc[p].checked.at))
        => /\ ErrType(proc[p]) = "none"
           /\ proc[p].result = proc[p].before
           /\ store[proc[p].name] = proc[p].before
           /\ proc[p].nreq = 0
           /\ ~proc[p].wrote

C3_Witness ==
    \E p \in Procs :
        /\ proc[p].op = "getValidToken" /\ Done(p)
        /\ IsRecord(proc[p].before)
        /\ Opt(proc[p].before, "expires_at")
             = {proc[p].checked.at + TOKEN_EXPIRY_BUFFER_MS}
        /\ proc[p].result = store[proc[p].name]

\* C4 (as claimed): for every record whose expiry instant is now + D, for any
\* integer D, isExpired returns true if and only if D < 300000 ms.
C4_ExpiredIffWithinBuffer ==
    \A p \in Procs :
        (proc[p].checked # None /\ Has(proc[p].token, "expires_at"))
        => (proc[p].checked.expired
              <=> proc[p].token.expires_at - proc[p].checked.at < 300000)

\* C5: for every record with no expiry instant isExpired returns false at
\* every value of the clock, and getValidToken never refreshes such a record.
C5_NoExpiryNeverExpires ==
    \A p \in Procs :
        (proc[p].checked # None /\ ~Has(proc[p].token, "expires_at"))
        => /\ ~proc[p].checked.expired
           /\ proc[p].currentToken = None
           /\ proc[p].nreq = 0
           /\ ~proc[p].wrote

C5_Witness ==
    \E p \in Procs :
        /\ proc[p].op = "getValidToken" /\ Done(p)
        /\ IsRecord(proc[p].token) /\ ~Has(proc[p].token, "expires_at")
        /\ proc[p].checked.at > Now0 + TOKEN_EXPIRY_BUFFER_MS
        /\ proc[p].result = proc[p].token

\* C6: getValidToken on an identity with no stored record fails with
\* NoTokenError; no request goes to the token endpoint or to the upstream and
\* the store still holds no record for the identity.
C6_NoRecordNoTokenError ==
    \A p \in Procs :
        (ViaGetValidToken(p) /\ proc[p].before = Null)
        => /\ proc[p].nreq = 0 /\ proc[p].nup = 0
           /\ proc[p].req = None /\ proc[p].up = None
           /\ store[proc[p].name] = Null
           /\ proc[p].pc \in {"gv_load", "done"}
           /\ Done(p) => /\ ErrType(proc[p]) = "NoTokenError"
                         /\ proc[p].result = None

C6_Witness ==
    \E p \in Procs :
        /\ proc[p].op = "jsonRpcCall" /\ Done(p)
        /\ proc[p].before = Null
        /\ ErrType(proc[p]) = "NoTokenError"

\* the invocation runs refreshToken: called directly, or by getValidToken on
\* a stored record that is expired when it is checked
RefreshEntered(p) ==
    \/ proc[p].op = "refreshToken"
    \/ /\ ViaGetValidToken(p)
       /\ proc[p].checked # None
       /\ TruthyNum(proc[p].before, "expires_at")
       /\ proc[p].before.expires_at - proc[p].checked.at < TOKEN_EXPIRY_BUFFER_MS

\* the invocation failed at once: nothing sent, nothing written, no result
FailedImmediately(p) ==
    /\ proc[p].nreq = 0 /\ proc[p].req = None
    /\ proc[p].nup = 0 /\ proc[p].up = None
    /\ ~proc[p].wrote
    /\ store[proc[p].name] = proc[p].before
    /\ proc[p].result = None

\* C7: refresh on an identity with no stored record, or with a stored record
\* without a refresh credential, fails with NoRefreshTokenError, sends no
\* request and changes nothing; getValidToken on an expired record without a
\* refresh credential fails this way instead of returning the stale record.
C7_NoRefreshCredential ==
    \A p \in Procs :
        (/\ Done(p) /\ RefreshEntered(p)
         /\ ~TruthyStr(proc[p].before, "refresh_token"))
        => /\ ErrType(proc[p]) = "NoRefreshTokenError"
           /\ FailedImmediately(p)

C7_Witness ==
    \E p \in Procs :
        /\ proc[p].op = "getValidToken" /\ Done(p)
        /\ IsRecord(proc[p].before)
        /\ ~Has(proc[p].before, "refresh_token")
        /\ proc[p].checked # None /\ proc[p].checked.expired
        /\ ErrType(proc[p]) = "NoRefreshTokenError"
        /\ TruthyStr(proc[p].server, "tokenUrl")

\* C8 (as claimed): refresh with a descriptor that lacks a token endpoint
\* fails with MissingEndpointError, and with one that lacks a client id with
\* MissingClientIdError; in both cases at once, with nothing sent or changed.
C8_MissingConfigAsClaimed ==
    \A p \in Procs :
        (Done(p) /\ RefreshEntered(p))
        => /\ ~TruthyStr(proc[p].server, "tokenUrl")
                => /\ ErrType(proc[p]) = "MissingEndpointError"
                   /\ FailedImmediately(p)
           /\ ~TruthyStr(proc[p].server, "clientId")
                => /\ ErrType(proc[p]) = "MissingClientIdError"
                   /\ FailedImmediately(p)

\* C8 (amended): when the stored record carries a refresh credential, refresh
\* with a descriptor that lacks a token endpoint fails with
\* MissingEndpointError, and with one that has a token endpoint but lacks a
\* client id with MissingClientIdError; in both cases at once, with nothing
\* sent, retried or changed.
C8_MissingConfig ==
    \A p \in Procs :
        (/\ Done(p) /\ RefreshEntered(p)
         /\ TruthyStr(proc[p].before, "refresh_token"))
        => /\ ~TruthyStr(proc[p].server, "tokenUrl")
                => /\ ErrType(proc[p]) = "MissingEndpointError"
                   /\ FailedImmediately(p)
           /\ (TruthyStr(proc[p].server, "tokenUrl")
                   /\ ~TruthyStr(proc[p].server, "clientId"))
                => /\ ErrType(proc[p]) = "MissingClientIdError"
                   /\ FailedImmediately(p)

C8_Witness ==
    \E p \in Procs :
        /\ proc[p].op = "refreshToken" /\ Done(p)
        /\ TruthyStr(proc[p].before, "refresh_token")
        /\ ~Has(proc[p].server, "tokenUrl") /\ ~Has(proc[p].server, "clientId")
        /\ ErrType(proc[p]) = "MissingEndpointError"

\* C9: when the token endpoint answers a refresh request non-2xx, the
\* invocation fails with RefreshFailedError carrying status and body, the
\* stored record is as it was before the call, and the invocation has sent
\* exactly that one refresh request.
C9_RefreshFailureSurfaced ==
    \A p \in Procs :
        proc[p].rejected # None
        => /\ Done(p)
           /\ proc[p].error = [type |-> "RefreshFailedError",
                               status |-> proc[p].rejected.status,
                               body |-> IF proc[p].rejected.data = {} THEN "{}"
                                        ELSE CHOOSE x \in proc[p].rejected.data : TRUE]
           /\ proc[p].nreq = 1
           /\ ~proc[p].wrote
           /\ store[proc[p].name] = proc[p].before
           /\ proc[p].result = None
           /\ proc[p].nup = 0

C9_Witness ==
    \E p \in Procs :
        /\ proc[p].op = "getValidToken" /\ Done(p)
        /\ proc[p].rejected = [status |-> 401, data |-> {"invalid_grant"}]
        /\ ErrType(proc[p]) = "RefreshFailedError"
        /\ store[proc[p].name] = proc[p].before

C11_RoundTrip ==
    \A p \in Procs :
        (/\ proc[p].op = "saveThenLoad"
         /\ Done(p)
         /\ Has(proc[p].arg, "expires_in")
         /\ ~Has(proc[p].arg, "expires_at"))
        => proc[p].result =
              Put(proc[p].arg, "expires_at",
                  proc[p].saveTime + proc[p].arg.expires_in * 1000)

\* --------------------------------------------------------------- C12
\* an invocation that has saved a record and returned
Saved(p) ==
    /\ proc[p].op \in {"saveToken", "saveThenLoad", "loadThenSave"}
    /\ Done(p)
    /\ proc[p].wrote

\* C12: a save of a record that already has an expiry instant stores that
\* instant unchanged, with or without expires_in; so saving the loaded
\* record again, at any later time, never moves the expiry instant.
C12_ExplicitExpiryKept ==
    \A p \in Procs :
        (Saved(p) /\ Has(proc[p].arg, "expires_at"))
        => Opt(store[proc[p].name], "expires_at")
              = Opt(proc[p].arg, "expires_at")

\* --------------------------------------------------------------- C13
\* the invocation is a loadToken, isExpired, hasToken or a getValidToken
\* that has not entered the refresh
ReadOnly(pr) ==
    \/ pr.op \in {"loadToken", "isExpired", "hasToken"}
    \/ /\ pr.op = "getValidToken"
       /\ pr.pc \in {"gv_load", "done"}
       /\ pr.currentToken = None

\* what a read-only invocation hands back is the stored record as it is
LoadedAsStored(p) ==
    (/\ proc[p].op \in {"loadToken", "getValidToken"}
     /\ Done(p)
     /\ IsRecord(proc[p].result))
    => proc[p].result = store[proc[p].name]

\* the answer of the expiry check is a function of the record's expiry
\* instant and of the time of the check
CheckedByInstant(p) ==
    proc[p].checked # None
    => (proc[p].checked.expired
           <=> \E e \in Opt(proc[p].token, "expires_at") :
                  e # 0 /\ e - proc[p].checked.at < TOKEN_EXPIRY_BUFFER_MS)

\* C13: no step of a loadToken, isExpired, hasToken or non-refreshing
\* getValidToken changes the store (so a stored expiry instant is neither
\* changed nor recomputed from expires_in), the record handed back is the
\* stored one, and the expiry check depends on expires_at and the current
\* time only.
C13_ExpiryIsStable ==
    [][\A p \in Procs :
          (proc'[p] # proc[p] /\ ReadOnly(proc'[p]))
          => /\ store' = store
             /\ LoadedAsStored(p)'
             /\ CheckedByInstant(p)']_vars

\* a load of a stored record whose expiry instant is not what a fresh
\* stamp from its lifetime would give
C13_Witness ==
    \E p \in Procs :
        /\ proc[p].op = "loadToken"
        /\ Done(p)
        /\ IsRecord(proc[p].result)
        /\ TruthyNum(proc[p].result, "expires_in")
        /\ Has(proc[p].result, "expires_at")
        /\ proc[p].result.expires_at # now + proc[p].result.expires_in * 1000

\* --------------------------------------------------------------- C14
\* C14: every record that getValidToken returns, from the store or from a
\* refresh, has no expiry instant or one later than the time of the return.
C14_NeverReturnsExpired ==
    [][\A p \in Procs :
          (/\ proc'[p].op = "getValidToken"
           /\ proc[p].result = None
           /\ IsRecord(proc'[p].result))
          => \A e \in Opt(proc'[p].result, "expires_at") : e > now']_vars


\* --------------------------------------------------------------- C15
\* C15: getValidToken has no mutual exclusion: an invocation that loads an
\* expired record enters the refresh, and a refresh that loads a record with
\* a refresh credential sends its request, whatever the other invocations
\* for the identity are doing; so two invocations that observed the same
\* expired record both have a refresh request in flight.
C15_NoMutualExclusion ==
    [][\A p \in Procs :
          /\ (/\ proc[p].pc = "gv_load"
              /\ proc'[p] # proc[p]
              /\ store[proc[p].name] # Null
              /\ isExpired(store[proc[p].name], now))
             => proc'[p].pc = "rt_load"
          /\ (/\ proc[p].pc = "rt_load"
              /\ proc'[p] # proc[p]
              /\ TruthyStr(store[proc[p].name], "refresh_token")
              /\ TruthyStr(proc[p].server, "tokenUrl")
              /\ TruthyStr(proc[p].server, "clientId"))
             => /\ proc'[p].pc = "rt_post"
                /\ proc'[p].nreq = proc[p].nreq + 1]_vars

\* two refreshes in flight for one identity, from the same expired record
C15_Witness ==
    \E p, q \in Procs :
        /\ p # q
        /\ proc[p].op = "getValidToken" /\ proc[q].op = "getValidToken"
        /\ proc[p].name = proc[q].name
        /\ proc[p].pc = "rt_post" /\ proc[q].pc = "rt_post"
        /\ proc[p].token = proc[q].token
        /\ proc[p].checked.expired /\ proc[q].checked.expired
        /\ proc[p].req.refresh_token = proc[q].req.refresh_token

\* --------------------------------------------------------------- C16
\* the order of the steps of one getValidToken invocation
GetValidTokenOrder ==
    {<<"idle", "gv_load">>, <<"gv_load", "done">>, <<"gv_load", "rt_load">>,
     <<"rt_load", "done">>, <<"rt_load", "rt_post">>, <<"rt_post", "done">>,
     <<"rt_post", "sv_ensure">>, <<"sv_ensure", "sv_write">>,
     <<"sv_write", "sv_chmod">>, <<"sv_chmod", "done">>, <<"done", "idle">>}

\* the request was sent after the load and the check, which found the
\* record expired; a refreshed record is returned after its save completed
OrderedSoFar(p) ==
    /\ proc[p].pc \in {"rt_load", "rt_post", "sv_ensure", "sv_write", "sv_chmod"}
       => /\ IsRecord(proc[p].token)
          /\ proc[p].checked # None
          /\ proc[p].checked.expired
    /\ proc[p].nreq > 0
       => /\ proc[p].nreq = 1
          /\ IsRecord(proc[p].token)
          /\ proc[p].checked # None
          /\ proc[p].checked.expired
    /\ proc[p].resp # None /\ proc[p].pc \notin {"sv_chmod", "done"}
       => proc[p].result = None
    /\ proc[p].resp # None /\ proc[p].result # None
       => /\ proc[p].wrote
          /\ mode[proc[p].name] = "0600"

\* C16: one getValidToken invocation goes load, expiry check, refresh
\* request only if expired, save, return, in that order: no request before
\* the load and check, no refreshed record returned before its save is done.
C16_StepsOrdered ==
    [][\A p \in Procs :
          (proc'[p] # proc[p]
           /\ "getValidToken" \in {proc[p].op, proc'[p].op})
          => /\ <<proc[p].pc, proc'[p].pc>> \in GetValidTokenOrder
             /\ proc'[p].op = "getValidToken" => OrderedSoFar(p)']_vars

\* a refreshed record is returned, its save done
C16_Witness ==
    \E p \in Procs :
        /\ proc[p].op = "getValidToken"
        /\ Done(p)
        /\ proc[p].resp # None
        /\ IsRecord(proc[p].result)
        /\ proc[p].wrote
        /\ store[proc[p].name] # proc[p].before

StateMismatch(p) ==
    /\ proc[p].op = "runOAuthFlow"
    /\ proc[p].flow # None
    /\ proc[p].flow.outcome # None
    /\ proc[p].flow.outcome.ok
    /\ proc[p].flow.outcome.state # proc[p].flow.state

\* C18: when the callback's state differs from the generated state, the flow
\* sends no code-exchange request and saves nothing, and once it has taken
\* the callback's result it has failed with StateMismatchError.
C18_StateMismatchFails ==
    \A p \in Procs :
        StateMismatch(p)
        => /\ proc[p].flow.nxreq = 0
           /\ proc[p].flow.xreq = None
           /\ ~proc[p].wrote
           /\ store[proc[p].name] = proc[p].before
           /\ proc[p].pc \in {"of_open", "of_wait", "done"}
           /\ Done(p) => ErrType(proc[p]) = "StateMismatchError"

\* the listener answered 200 and the flow failed on the state
C18_Witness ==
    \E p \in Procs :
        /\ StateMismatch(p)
        /\ Done(p)
        /\ proc[p].flow.status = 200
        /\ ErrType(proc[p]) = "StateMismatchError"

\* --------------------------------------------------------------- C19
\* the state of the Callback Listener, from its server and its promise
ListenerState(f) ==
    IF f.outcome # None
    THEN IF f.outcome.ok THEN "Completed"
         ELSE IF f.outcome.type = "CallbackTimeoutError" THEN "TimedOut"
         ELSE "Failed"
    ELSE IF f.srv = "listening" THEN "Listening"
    ELSE "Idle"

\* the listener of p is in state st
ListenerIn(p, st) ==
    /\ proc[p].flow # None
    /\ ~proc[p].flow.manual
    /\ ListenerState(proc[p].flow) = st

\* the listener of p handles no request in this step and keeps its result
Inert(p) ==
    proc'[p].flow # None
    => /\ proc'[p].flow.hits = proc[p].flow.hits
       /\ proc'[p].flow.outcome = proc[p].flow.outcome
       /\ proc'[p].flow.srv # "listening"

\* C19: a request to /callback with a code and a state (each with a value)
\* and no error value is answered 200, takes the listener from Listening to
\* Completed with exactly that {code, state}, and closes it; a Completed
\* listener takes no further request and keeps its result.
C19_Success ==
    [][\A p \in Procs :
          /\ \A q \in Queries :
                (/\ Request(p, "/callback", q)
                 /\ TruthyStr(q, "code") /\ TruthyStr(q, "state")
                 /\ ~TruthyStr(q, "error"))
                => /\ ListenerIn(p, "Listening")
                   /\ ListenerIn(p, "Completed")'
                   /\ proc'[p].flow.status = 200
                   /\ proc'[p].flow.outcome =
                         [ok |-> TRUE, code |-> q.code, state |-> q.state]
                   /\ proc'[p].flow.srv = "closing"
          /\ ListenerIn(p, "Completed") => Inert(p)]_vars

\* a Completed listener, closed after one request
C19_Witness ==
    \E p \in Procs :
        /\ ListenerIn(p, "Completed")
        /\ proc[p].flow.srv = "closed"
        /\ proc[p].flow.status = 200
        /\ proc[p].flow.hits = 1

\* --------------------------------------------------------------- C20
\* C20: a request to /callback with an error value, with or without code
\* and state, makes the listener fail with OAuthProviderError and close; a
\* listener failed so takes no further request and never resolves.
C20_ProviderError ==
    [][\A p \in Procs :
          /\ \A q \in Queries :
                (Request(p, "/callback", q) /\ TruthyStr(q, "error"))
                => /\ ListenerIn(p, "Listening")
                   /\ ListenerIn(p, "Failed")'
                   /\ proc'[p].flow.outcome =
                         [ok |-> FALSE, type |-> "OAuthProviderError",
                          error |-> q.error]
                   /\ proc'[p].flow.srv = "closing"
          /\ (/\ ListenerIn(p, "Failed")
              /\ proc[p].flow.outcome.type = "OAuthProviderError")
             => Inert(p)]_vars

\* a listener failed with the provider's error, closed after one request
C20_Witness ==
    \E p \in Procs :
        /\ ListenerIn(p, "Failed")
        /\ proc[p].flow.outcome.type = "OAuthProviderError"
        /\ proc[p].flow.srv = "closed"
        /\ proc[p].flow.hits = 1


\* --------------------------------------------------------------- C21
\* C21: a request to a path other than /callback is answered 404 and leaves
\* the listener Listening, unsettled, its timeout pending; however many come,
\* a later well-formed /callback request still completes the listener.
C21_OtherPath ==
    [][\A p \in Procs : \A path \in Paths \ {"/callback"}, q \in Queries :
          Request(p, path, q)
          => /\ ListenerIn(p, "Listening")
             /\ ListenerIn(p, "Listening")'
             /\ proc'[p].flow.status = 404
             /\ proc'[p].flow.srv = "listening"
             /\ proc'[p].flow.outcome = None
             /\ proc[p].flow.timer = "pending"
             /\ proc'[p].flow.timer = "pending"]_vars

\* a listener completed by a /callback request that came after every other
\* request the listener can take
C21_Witness ==
    \E p \in Procs :
        /\ ListenerIn(p, "Completed")
        /\ proc[p].flow.status = 200
        /\ proc[p].flow.hits = MaxRequests

\* --------------------------------------------------------------- C22
\* C22: a request to /callback with no error value and with no code value
\* or no state value is answered 400, closes the listener and fails it with
\* MalformedCallbackError; a listener never resolves with a code or a state
\* that has no value.
C22_Malformed ==
    [][\A p \in Procs :
          /\ \A q \in Queries :
                (/\ Request(p, "/callback", q)
                 /\ ~TruthyStr(q, "error")
                 /\ ~TruthyStr(q, "code") \/ ~TruthyStr(q, "state"))
                => /\ ListenerIn(p, "Listening")
                   /\ ListenerIn(p, "Failed")'
                   /\ proc'[p].flow.status = 400
                   /\ proc'[p].flow.srv = "closing"
                   /\ proc'[p].flow.outcome =
                         [ok |-> FALSE, type |-> "MalformedCallbackError"]
          /\ ListenerIn(p, "Completed")'
             => /\ TruthyStr(proc'[p].flow.outcome, "code")
                /\ TruthyStr(proc'[p].flow.outcome, "state")]_vars

\* a listener failed by a malformed callback, closed
C22_Witness ==
    \E p \in Procs :
        /\ ListenerIn(p, "Failed")
        /\ proc[p].flow.outcome.type = "MalformedCallbackError"
        /\ proc[p].flow.status = 400
        /\ proc[p].flow.srv = "closed"


\* --------------------------------------------------------------- C23
\* the listener of p has been started and its promise is not settled
Waiting(p) ==
    /\ proc[p].flow # None
    /\ ~proc[p].flow.manual
    /\ proc[p].flow.outcome = None

\* the promise of p's listener is settled
Settled(p) ==
    /\ proc[p].flow # None
    /\ proc[p].flow.outcome # None

\* the timeout of p's listener is due
Due(p) == now - proc[p].flow.started >= DEFAULT_TIMEOUT_MS

\* C23: the timeout fires no earlier than timeoutMs (300,000 ms) after the
\* start; on a listener still Listening it closes the listener, which is
\* then TimedOut with CallbackTimeoutError; a listener still waiting when
\* the timeout is due does get closed and settled; and a listener that is
\* Completed or Failed stays so, it never becomes TimedOut.
C23_Timeout ==
    /\ [][\A p \in Procs :
             /\ Timeout(p)
                => /\ Due(p)
                   /\ ListenerIn(p, "Listening")
                      => /\ ListenerIn(p, "TimedOut")'
                         /\ proc'[p].flow.srv = "closing"
                         /\ proc'[p].flow.outcome =
                               [ok |-> FALSE, type |-> "CallbackTimeoutError"]
             /\ ListenerIn(p, "TimedOut")'
                => /\ Due(p)'
                   /\ proc'[p].flow.status \in {0, 404}
             /\ (ListenerIn(p, "Completed") \/ ListenerIn(p, "Failed"))
                => (proc'[p].flow # None
                    => ListenerState(proc'[p].flow)
                          = ListenerState(proc[p].flow))]_vars
    /\ \A p \in Procs :
          (Waiting(p) /\ Due(p)) ~> Settled(p)

\* a listener that timed out, closed, having answered no /callback request
C23_Witness ==
    \E p \in Procs :
        /\ ListenerIn(p, "TimedOut")
        /\ proc[p].flow.srv = "closed"
        /\ proc[p].flow.timer = "fired"
        /\ proc[p].flow.hits = 0


\* --------------------------------------------------------------- C24
\* the callback port was in use when p's listener started
PortInUse(p) ==
    /\ proc[p].op = "runOAuthFlow"
    /\ proc[p].flow # None
    /\ proc[p].flow.srv = "failed"

\* what holds of a flow whose port was in use
PortInUseFails(p) ==
    /\ proc[p].flow.outcome = [ok |-> FALSE, type |-> "PortInUseError",
                               port |-> proc[p].flow.authUrl.redirect_uri[2]]
    /\ proc[p].flow.port = proc[p].flow.authUrl.redirect_uri[2]
    /\ proc[p].flow.timer = "cleared"
    /\ proc[p].flow.hits = 0
    /\ proc[p].flow.nxreq = 0
    /\ ~proc[p].wrote
    /\ store[proc[p].name] = proc[p].before
    /\ proc[p].pc \in {"of_open", "of_wait", "done"}
    /\ Done(p) => ErrType(proc[p]) = "PortInUseError"

\* C24: a port already bound when the listener starts fails the start with
\* PortInUseError naming the port of the attempt, before any request: the
\* timeout is cancelled, the listener never listens, no other port is
\* tried, and the flow fails with that error without a code-exchange
\* request and without a save.
C24_PortInUse ==
    [][\A p \in Procs :
          /\ ListenError(p) => PortInUse(p)'
          /\ PortInUse(p)' => PortInUseFails(p)'
          /\ (PortInUse(p) /\ proc'[p].flow # None)
             => /\ proc'[p].flow.srv = "failed"
                /\ proc'[p].flow.port = proc[p].flow.port
          /\ (proc[p].flow # None /\ proc'[p].flow # None)
             => proc'[p].flow.port = proc[p].flow.port]_vars

\* the flow failed on the port in use, the stored record still there
C24_Witness ==
    \E p \in Procs :
        /\ PortInUse(p)
        /\ Done(p)
        /\ ErrType(proc[p]) = "PortInUseError"
        /\ proc[p].before # Null
        /\ store[proc[p].name] = proc[p].before


\* --------------------------------------------------------------- C25
\* the server of a settled listener is not bound: close() was called on
\* it, or it never bound the port
Released(p) ==
    (Settled(p) /\ ~proc[p].flow.manual)
    => /\ proc[p].flow.srv \in {"closing", "closed", "failed"}
       /\ ListenerState(proc[p].flow) \in {"Completed", "Failed", "TimedOut"}

\* C25: a started listener ends in one of Completed, Failed and TimedOut and
\* keeps that end (under fairness of the timer and of the event loop); once
\* its result is there its server has been closed, on every path, and the
\* close completes.
C25_ListenerEnds ==
    /\ [](\A p \in Procs : Released(p))
    /\ [][\A p \in Procs :
             (Settled(p) /\ proc'[p].flow # None)
             => proc'[p].flow.outcome = proc[p].flow.outcome]_vars
    /\ \A p \in Procs :
          (Waiting(p) /\ (Due(p) \/ ticks < MaxTicks)) ~> Settled(p)
    /\ \A p \in Procs :
          (Settled(p) /\ proc[p].flow.srv = "closing")
             ~> (proc[p].flow = None \/ proc[p].flow.srv = "closed")

\* a listener that completed, its server closed and its timeout cleared
C25_Witness ==
    \E p \in Procs :
        /\ ListenerIn(p, "Completed")
        /\ proc[p].flow.srv = "closed"
        /\ proc[p].flow.timer = "cleared"
        /\ proc[p].pc = "of_open"


\* --------------------------------------------------------------- C26
\* what the Callback Listener does with a /callback request of query q
ListenerOn(f, q) == RequestHandler([f EXCEPT !.outcome = None], "/callback", q)

\* C26: for every pasted URL the manual entry gives what the listener
\* gives for a /callback request with the same query: the same
\* {code, state} where the listener completes, a failure where the listener
\* fails (and for text that is no URL); and it opens no listener.
C26_ManualAsListener ==
    [][\A p \in Procs : \A u \in PastedUrls :
          ManualAnswer(p, u)
          => /\ proc'[p].flow.srv = "none"
             /\ proc'[p].flow.hits = 0
             /\ IF u.valid /\ ListenerOn(proc[p].flow, u.query).outcome.ok
                THEN proc'[p].flow.outcome
                        = ListenerOn(proc[p].flow, u.query).outcome
                ELSE ~proc'[p].flow.outcome.ok]_vars


\* --------------------------------------------------------------- C27
\* no stored record holds the verifier v, under any name
NotPersisted(v) ==
    \A n \in Names :
        /\ "code_verifier" \notin DOMAIN store[n]
        /\ "codeVerifier" \notin DOMAIN store[n]
        /\ \A f \in DOMAIN store[n]
                  \cap {"access_token", "token_type", "refresh_token"} :
              store[n][f] # v

\* the exchange request of p's attempt carries the verifier of that attempt,
\* whose challenge, state and redirect URI went into its authorization URL
OwnExchange(p) ==
    LET f == proc[p].flow
    IN /\ f.xreq.code_verifier = f.pkce.codeVerifier
       /\ f.authUrl.code_challenge = generatePKCE(f.xreq.code_verifier).codeChallenge
       /\ f.authUrl.code_challenge_method = "S256"
       /\ f.authUrl.state = f.outcome.state
       /\ f.xreq.code = f.outcome.code
       /\ f.xreq.redirect_uri = f.authUrl.redirect_uri

\* C27: the verifier of an attempt goes into at most one code-exchange
\* request, the request of that same attempt (whose authorization URL had
\* the matching challenge), also while another attempt runs; and no
\* verifier is ever in a stored record.
C27_PkceOneShot ==
    /\ \A p \in Procs :
          proc[p].flow # None
          => /\ proc[p].flow.nxreq <= 1
             /\ proc[p].flow.nxreq = 1 <=> proc[p].flow.xreq # None
             /\ proc[p].flow.xreq # None => OwnExchange(p)
    /\ \A v \in Verifiers \cup AttemptVerifiers : NotPersisted(v)

\* two attempts for different identities, with different verifiers, have
\* both sent their exchange request, and one has saved its token
C27_Witness ==
    \E p, q \in Procs :
        /\ proc[p].flow # None /\ proc[q].flow # None
        /\ proc[p].name # proc[q].name
        /\ proc[p].flow.xreq # None /\ proc[q].flow.xreq # None
        /\ proc[p].flow.pkce.codeVerifier # proc[q].flow.pkce.codeVerifier
        /\ proc[p].wrote
        /\ store[proc[p].name] # Null


\* --------------------------------------------------------------- C28
\* C28: when the token endpoint answers the code exchange non-2xx, the flow
\* fails with TokenExchangeError carrying that status and the body of the
\* answer, after its one exchange request and without saving anything.
C28_ExchangeFailure ==
    \A p \in Procs :
        (proc[p].op = "runOAuthFlow" /\ proc[p].rejected # None)
        => /\ Done(p)
           /\ proc[p].error = [type |-> "TokenExchangeError",
                               status |-> proc[p].rejected.status,
                               body |-> ErrorBody(proc[p].rejected.data)]
           /\ proc[p].result = None
           /\ proc[p].flow.nxreq = 1
           /\ ~proc[p].wrote
           /\ store[proc[p].name] = proc[p].before

\* the exchange was refused with a body, the stored record still there
C28_Witness ==
    \E p \in Procs :
        /\ proc[p].op = "runOAuthFlow"
        /\ Done(p)
        /\ proc[p].rejected # None
        /\ proc[p].rejected.data # {}
        /\ ErrType(proc[p]) = "TokenExchangeError"
        /\ proc[p].before # Null


\* --------------------------------------------------------------- C29
\* C29: an upstream call is sent in the step in which the invocation's
\* getValidToken resolves, once, with Authorization: Bearer and the access
\* token of the record getValidToken returned (the stored valid one, or the
\* refreshed one after a refresh); an invocation whose getValidToken fails
\* sends no upstream call.
C29_TokenAttached ==
    [][\A p \in Procs :
          proc'[p].op = "jsonRpcCall"
          => /\ proc'[p].nup \in {0, 1}
             /\ proc'[p].nup # proc[p].nup
                => /\ proc[p].pc \in {"gv_load", "sv_chmod"}
                   /\ IsRecord(proc'[p].result)
                   /\ proc'[p].up = [url |-> "U", scheme |-> "Bearer",
                                     credentials |->
                                         proc'[p].result.access_token]
                   /\ IF proc'[p].resp # None
                      THEN /\ proc'[p].result.access_token
                                 = proc'[p].resp.access_token
                           /\ proc'[p].wrote
                      ELSE /\ proc'[p].result = store[proc[p].name]
                           /\ ~isExpired(proc'[p].result, now)
             /\ (/\ proc[p].pc # "rpc_post"
                 /\ proc[p].error = None
                 /\ proc'[p].error # None)
                => /\ proc'[p].nup = 0
                   /\ proc'[p].up = None
                   /\ Done(p)']_vars

\* the upstream call carries the access token of the refresh just made
C29_Witness ==
    \E p \in Procs :
        /\ proc[p].op = "jsonRpcCall"
        /\ proc[p].pc = "rpc_post"
        /\ proc[p].resp # None
        /\ proc[p].token.access_token # proc[p].resp.access_token
        /\ proc[p].up.credentials = proc[p].resp.access_token

\* --------------------------------------------------------------- C30
\* the upstream POST failed: no response, or a status outside 2xx
Failed(out) == ~out.response \/ out.status < 200 \/ out.status >= 300

\* C30: a failed upstream call ends the invocation with one typed error:
\* AuthRejectedError for 401 and 403, UpstreamError for 5xx,
\* UnreachableError for no response, UnexpectedResponseError with status and
\* body for any other status; no settled upstream call that failed, at the
\* HTTP or at the JSON-RPC level, ends as a success.
C30_Classified ==
    [][\A p \in Procs : \A out \in UpstreamOutcomes :
          RpcResponse(p, out)
          => /\ Done(p)'
             /\ Failed(out)
                => proc'[p].error =
                      IF ~out.response
                      THEN [type |-> "UnreachableError"]
                      ELSE IF out.status \in {401, 403}
                      THEN [type |-> "AuthRejectedError",
                            status |-> out.status]
                      ELSE IF out.status >= 500 /\ out.status <= 599
                      THEN [type |-> "UpstreamError", status |-> out.status]
                      ELSE [type |-> "UnexpectedResponseError",
                            status |-> out.status, body |-> out.data]
             /\ proc'[p].error = None
                => /\ ~Failed(out)
                   /\ ~Has(out.data, "error")
                   /\ proc'[p].result = out.data.result]_vars

\* an answer that is neither 2xx, 401, 403 nor 5xx ended the invocation
\* with UnexpectedResponseError, its status and its body
C30_Witness ==
    \E p \in Procs :
        /\ proc[p].op = "jsonRpcCall"
        /\ Done(p)
        /\ ErrType(proc[p]) = "UnexpectedResponseError"
        /\ proc[p].error.status = 404
        /\ proc[p].error.body = "missing"
        /\ proc[p].nup = 1

\* --------------------------------------------------------------- C31
\* C31: one invocation of the authorized caller sends at most one request
\* upstream; whatever the upstream answers (401, 403 and 5xx included), the
\* answer ends the invocation in that step without another upstream request,
\* without a request to the token endpoint, without a change of the store
\* and without starting an authorization flow.
C31_NoRetry ==
    [][\A p \in Procs :
          /\ proc'[p].op = "jsonRpcCall" => proc'[p].nup <= 1
          /\ (proc[p].pc = "rpc_post" /\ proc'[p] # proc[p])
             => /\ Done(p)'
                /\ proc'[p].nup = proc[p].nup
                /\ proc'[p].nreq = proc[p].nreq
                /\ proc'[p].req = proc[p].req
                /\ proc'[p].flow = None
                /\ store' = store]_vars

\* the upstream rejected the credential of a record that holds a refresh
\* credential: the invocation ended with one upstream request and no refresh
C31_Witness ==
    \E p \in Procs :
        /\ proc[p].op = "jsonRpcCall"
        /\ Done(p)
        /\ ErrType(proc[p]) = "AuthRejectedError"
        /\ TruthyStr(proc[p].token, "refresh_token")
        /\ proc[p].nup = 1
        /\ proc[p].nreq = 0

\* --------------------------------------------------------------- C32
\* C32: whenever a token record exists for an identity, its file is
\* readable and writable by the owner only (mode 600).
C32_OwnerOnly ==
    \A n \in Names : store[n] # Null => mode[n] = "0600"

\* --------------------------------------------------------------- C33
\* the invocation of p ends in this step without an error
Resolves(p) == ~Done(p) /\ Done(p)' /\ proc'[p].error = None

\* C33: a token record comes into existence only by the write of a save
\* for its identity and goes out of existence only by the removal step of
\* deleteToken or removeServer for its identity; when a save resolves the
\* record exists, when deleteToken or removeServer resolves it does not, so
\* a record exists exactly when a save took effect after the last deletion
\* or de-registration. hasToken and loadToken report just that. deleteToken
\* always resolves, removeServer resolves for every registered identity,
\* with or without a record, and neither touches another identity's record.
C33_Lifecycle ==
    [][\A n \in Names :
          /\ (store[n] = Null /\ store'[n] # Null)
             => \E p \in Procs : /\ proc[p].name = n
                                 /\ proc[p].pc = "sv_write"
                                 /\ store'[n] = proc[p].saving
          /\ (store[n] # Null /\ store'[n] = Null)
             => \E p \in Procs : /\ proc[p].name = n
                                 /\ proc[p].pc \in {"dt_remove", "rs_remove"}
          /\ \A p \in Procs :
                (proc[p].name = n /\ proc'[p] # proc[p])
                => /\ (Resolves(p) /\ proc[p].op = "saveToken")
                      => store'[n] # Null
                   /\ proc[p].op \in {"deleteToken", "removeServer"}
                      => /\ Resolves(p) => store'[n] = Null
                         /\ \A m \in Names \ {n} : store'[m] = store[m]
                   /\ (Done(p)' /\ proc[p].op = "deleteToken")
                      => proc'[p].error = None
                   /\ (Done(p)' /\ proc[p].op = "removeServer"
                         /\ n \in DOMAIN config.servers)
                      => proc'[p].error = None
                   /\ (Resolves(p) /\ proc[p].op = "hasToken")
                      => proc'[p].result.exists = (store[n] # Null)
                   /\ (Resolves(p) /\ proc[p].op = "loadToken")
                      => proc'[p].result = store[n]]_vars

\* removeServer resolved for an identity that had a record: the record is
\* gone and the other identity's record is still there
C33_Witness ==
    \E p \in Procs :
        /\ proc[p].op = "removeServer"
        /\ Done(p)
        /\ proc[p].error = None
        /\ proc[p].before # Null
        /\ store[proc[p].name] = Null
        /\ \E m \in Names \ {proc[p].name} : store[m] # Null

\* --------------------------------------------------------------- C35
\* C35: addServer with a registered name fails with 'already exists',
\* removeServer and getServer with an unregistered name fail with 'not
\* found'; a registry operation fails in no other case, and the step in
\* which it fails changes neither the config file, nor the config object
\* in memory, nor any token record.
C35_FailedRegistryOps ==
    [][\A p \in Procs :
          proc'[p] # proc[p]
          => /\ (/\ proc[p].pc = "as_load"
                 /\ proc[p].name \in DOMAIN config.servers)
                => /\ Done(p)'
                   /\ proc'[p].error = [type |-> "AlreadyExistsError",
                                        name |-> proc[p].name]
             /\ (/\ proc[p].pc \in {"rs_load", "gs_load"}
                 /\ proc[p].name \notin DOMAIN config.servers)
                => /\ Done(p)'
                   /\ proc'[p].error = [type |-> "NotFoundError",
                                        name |-> proc[p].name]
             /\ (/\ proc[p].op \in {"addServer", "removeServer", "getServer"}
                 /\ proc'[p].error # None)
                => /\ proc[p].pc \in {"as_load", "rs_load", "gs_load"}
                   /\ config' = config
                   /\ proc'[p].cfg = config
                   /\ store' = store
                   /\ mode' = mode]_vars

\* addServer was refused for a registered name and another url: the entry
\* is the one registered before, and the identity's record is still there
C35_Witness ==
    \E p \in Procs :
        /\ proc[p].op = "addServer"
        /\ Done(p)
        /\ ErrType(proc[p]) = "AlreadyExistsError"
        /\ proc[p].name \in DOMAIN config.servers
        /\ config.servers[proc[p].name].url # proc[p].arg.url
        /\ DOMAIN config.servers[proc[p].name].oauth # DOMAIN proc[p].arg.oauth
        /\ store[proc[p].name] # Null

\* --------------------------------------------------------------- C34
\* the request carries exactly 'Bearer ' followed by the credential cred
\* ({} when none is configured)
Presents(r, cred) ==
    cred # {} /\ r.authorization = {Bearer \o c : c \in cred}

\* the request is refused at once: 401, and the invocation is over without
\* a token load, a refresh or an upstream call
Refused(p) ==
    /\ Done(p)'
    /\ proc'[p].http.status = 401
    /\ proc'[p].token = None
    /\ proc'[p].nreq = 0
    /\ proc'[p].nup = 0
    /\ proc'[p].http.servers = {}
    /\ store' = store

C36_ReturnsPersisted ==
    [][\A p \in Procs :
          (/\ proc[p].pc = "sv_chmod"
           /\ proc[p].resp # None
           /\ proc[p].op \in {"refreshToken", "getValidToken"}
           /\ Resolves(p))
          => proc'[p].result = store'[proc[p].name]]_vars

\* --------------------------------------------------------------- C37
\* the last answer the token endpoint has given
LastIssued == Issued(Cardinality(Answers))

\* C37: when the concurrent getValidToken invocations for an identity are
\* all over and the token endpoint has answered at least one of them with
\* success, the stored record is the one of its last answer: that access
\* token and that refresh credential.
C37_LatestIssuedStored ==
    ((\A p \in Procs : Done(p)) /\ Answers # {})
    => \A n \in SeqNames :
          /\ store[n].access_token = LastIssued.access_token
          /\ store[n].refresh_token = LastIssued.refresh_token

\* --------------------------------------------------------------- C38
\* C38: a run of the authorization flow that fails, for whatever reason,
\* leaves the identity's stored record as it was when the run began. The
\* run sends its exchange request only after a callback with a code was
\* received and its state matched, has an answer to the exchange only after
\* that request, and changes the stored record only by the write of the
\* record it saves, after a successful answer to the exchange.
C38_FailureKeepsRecord ==
    [][\A p \in Procs :
          proc'[p].op = "runOAuthFlow"
          => LET pr == proc'[p]
                 n == pr.name
             IN /\ pr.error # None
                   => /\ store'[n] = pr.before
                      /\ mode'[n] = mode[n]
                      /\ ~pr.wrote
                /\ (pr.flow # None /\ pr.flow.xreq # None)
                   => /\ pr.flow.outcome # None
                      /\ pr.flow.outcome.ok
                      /\ pr.flow.outcome.state = pr.flow.state
                /\ pr.resp # None
                   => (pr.flow # None /\ pr.flow.xreq # None)
                /\ (store'[n] # store[n] \/ pr.wrote)
                   => /\ pr.resp # None
                      /\ pr.error = None
                      /\ store'[n] = Stamp(pr.resp, pr.saveTime)]_vars

\* a run failed on the state check while a record was stored: the record
\* is the one stored before, and no exchange request was sent
C38_Witness ==
    \E p \in Procs :
        /\ proc[p].op = "runOAuthFlow"
        /\ Done(p)
        /\ ErrType(proc[p]) = "StateMismatchError"
        /\ proc[p].before # Null
        /\ store[proc[p].name] = proc[p].before
        /\ proc[p].flow.nxreq = 0

\* --------------------------------------------------------------- C39
\* C39: a refresh request is built from the record stored at that moment:
\* it carries grant_type=refresh_token, the refresh credential of that
\* record (r2 once a rotation has been saved, r1 as long as none has),
\* the client_id of the descriptor, and client_secret exactly when the
\* descriptor has a non-empty one; it goes to the descriptor's token
\* endpoint, once per refresh.
C39_RequestFromStored ==
    [][\A p \in Procs :
          proc'[p].req # proc[p].req /\ proc'[p].req # None
          => LET req == proc'[p].req
                 stored == store[proc[p].name]
                 server == proc[p].server
             IN /\ proc[p].pc = "rt_load"
                /\ proc'[p].nreq = proc[p].nreq + 1
                /\ req.grant_type = "refresh_token"
                /\ req.refresh_token = stored.refresh_token
                /\ req.client_id = server.clientId
                /\ req.url = server.tokenUrl
                /\ "client_secret" \in DOMAIN req
                      <=> TruthyStr(server, "clientSecret")
                /\ "client_secret" \in DOMAIN req
                      => req.client_secret = server.clientSecret
                /\ DOMAIN req \subseteq {"url", "grant_type", "refresh_token",
                                         "client_id", "client_secret"}]_vars

\* after a rotation from r1 to r2 was saved, the next refresh sends r2, with
\* the client secret of its descriptor
C39_Witness ==
    \E p \in Procs :
        /\ proc[p].op = "refreshToken"
        /\ proc[p].pc = "rt_post"
        /\ Opt(proc[p].before, "refresh_token") = {"r2"}
        /\ proc[p].req.refresh_token = "r2"
        /\ Opt(proc[p].req, "client_secret") = {"sec"}

====
